---- MODULE Spec2Model ----
(***************************************************************************)
(* Model of the ESP protocol engine and BLE session manager of             *)
(* RPi-V1-Dashcam: controllers/v1_controller.py (V1BleakClient,            *)
(* V1Controller) together with the AppState sink of shared_state.py.       *)
(*                                                                         *)
(* Execution model.  The engine runs on one asyncio event loop: a step of  *)
(* a task runs from one await that really suspends to the next, so every   *)
(* action below is one such step.  The notification handler is a plain     *)
(* callback of the loop and is one action.  asyncio.Lock, asyncio.Event    *)
(* and asyncio.Queue are modelled by their CPython behaviour.              *)
(*                                                                         *)
(* Python call binding is modelled: a call that does not supply every      *)
(* required parameter of the method it names raises TypeError before the   *)
(* body runs, and a call of a method the class does not define raises      *)
(* AttributeError.                                                         *)
(***************************************************************************)
EXTENDS Integers, Sequences, FiniteSets, TLC

VARIABLES
    client,            \* V1BleakClient.client: "None" or "BleakClient"
    linkUp,            \* BleakClient.is_connected (the BLE link)
    subscribed,        \* start_notify has enabled notifications
    v1_type,           \* V1BleakClient.v1_type (a DeviceId value)
    can_send_event,    \* V1BleakClient.can_send_event (asyncio.Event value)
    alert_buffer,      \* V1BleakClient._alert_buffer, rows in insertion order
    pending_responses, \* V1BleakClient.pending_responses: pid -> [q, max]
    lockLocked,        \* request_lock._locked
    lockWaiters,       \* request_lock._waiters: <<[t, woken]>>
    tpc,               \* position of each client task
    tctx,              \* the API call each client task is in
    sweeps,            \* request_sweeps' locals of each client task
    wire,              \* the frame last handed to write_gatt_char
    cbTasks,           \* callback tasks created by create_task, FIFO
    v1_data,           \* AppState.v1_data
    app_running,       \* AppState.app_running
    pc,                \* position of the session task (run_async)
    exc,               \* exception in flight in the session task
    cancelReq,         \* main_task.cancel() was called and not yet delivered
    firmware_version,  \* the console client's firmware_version, in 1/10000
    v1_reconnect_request, \* AppState.v1_reconnect_request
    logRow,            \* the v1 fields the data logger has read for its row
    hist               \* history: what the last steps did (never read by the code)

vars == << client, linkUp, subscribed, v1_type, can_send_event, alert_buffer,
           pending_responses, lockLocked, lockWaiters, tpc, tctx, sweeps,
           wire, cbTasks, v1_data, app_running, pc, exc, cancelReq,
           firmware_version, v1_reconnect_request, logRow, hist >>

-----------------------------------------------------------------------------
(* Bounds of the model *)

\* the number of callback tasks that may be waiting to run
MaxCb == 1
\* the largest row count an alert frame of the model declares
MaxCount == 3
\* bytes in a request payload
MaxLen == 2
\* the largest number of sweep definitions the detector reports, and of frames
\* waiting in the sweep queue
MaxSweeps == 2

-----------------------------------------------------------------------------
(* ESP protocol definitions *)

ESP_SOF == 170
ESP_EOF == 171
DEST_BASE == 208
ORIG_BASE == 224

CONCEALED_DISPLAY == 0
REMOTE_AUDIO == 1
SAVVY == 2
V1CONNECTION == 6
GENERAL_BROADCAST == 8
VALENTINE_ONE_NO_CHECKSUM == 9
VALENTINE_ONE == 10
VALENTINE_ONE_LEGACY == 152
UNKNOWN_DEVICE == 153

DeviceId == { CONCEALED_DISPLAY, REMOTE_AUDIO, SAVVY, V1CONNECTION,
              GENERAL_BROADCAST, VALENTINE_ONE_NO_CHECKSUM, VALENTINE_ONE,
              VALENTINE_ONE_LEGACY, UNKNOWN_DEVICE }

REQVERSION == 1
REQALLSWEEPDEFINITIONS == 22
REQMAXSWEEPINDEX == 25
REQSTARTALERTDATA == 65
REQSTOPALERTDATA == 66
RESPVERSION == 2
RESPSWEEPDEFINITION == 23
RESPMAXSWEEPINDEX == 32
RESPALERTDATA == 67
INFDISPLAYDATA == 49
RESPUNSUPPORTEDPACKET == 100
RESPREQUESTNOTPROCESSED == 101
INFV1BUSY == 102
RESPDATAERROR == 103
UNKNOWNPACKETTYPE == 256

PacketId == { REQVERSION, REQALLSWEEPDEFINITIONS, REQMAXSWEEPINDEX,
              REQSTARTALERTDATA, REQSTOPALERTDATA, RESPVERSION,
              RESPSWEEPDEFINITION, RESPMAXSWEEPINDEX, RESPALERTDATA,
              INFDISPLAYDATA, RESPUNSUPPORTEDPACKET, RESPREQUESTNOTPROCESSED,
              INFV1BUSY, RESPDATAERROR, UNKNOWNPACKETTYPE }

-----------------------------------------------------------------------------
(* Bytes and Python sequence operations (indices are Python's, from 0) *)

Min(a, b) == IF a < b THEN a ELSE b

\* x & m on bytes
RECURSIVE BitAnd(_, _)
BitAnd(x, m) ==
    IF x = 0 \/ m = 0 THEN 0
    ELSE (x % 2) * (m % 2) + 2 * BitAnd(x \div 2, m \div 2)

\* x | m on bytes
RECURSIVE BitOr(_, _)
BitOr(x, m) ==
    IF x = 0 THEN m
    ELSE IF m = 0 THEN x
    ELSE ((x % 2) + (m % 2) - (x % 2) * (m % 2)) + 2 * BitOr(x \div 2, m \div 2)

\* sum(s[:n])
RECURSIVE SumTo(_, _)
SumTo(s, n) == IF n = 0 THEN 0 ELSE s[n] + SumTo(s, n - 1)

\* sum(s)
SumBytes(s) == SumTo(s, Len(s))

\* s[i]; HasIdx tells whether Python raises IndexError
HasIdx(s, i) == i >= 0 /\ i < Len(s)
At(s, i) == s[i + 1]
\* s[a:b] for 0 <= a <= b
Slice(s, a, b) == SubSeq(s, a + 1, Min(b, Len(s)))
\* s[:-2]
DropLast2(s) == SubSeq(s, 1, Len(s) - 2)

startswith_SOF(data) == Len(data) >= 1 /\ data[1] = ESP_SOF
endswith_EOF(data) == Len(data) >= 1 /\ data[Len(data)] = ESP_EOF

-----------------------------------------------------------------------------
(* Frame encoding: the packet _send_request builds *)

\* EncodeRequest with the length byte not counting the checksum byte
EncodeRequestLenWithoutChecksum(pid, dest, payload, type) ==
    LET use_checksum == (type = VALENTINE_ONE)
        packet == << ESP_SOF, BitOr(DEST_BASE, dest),
                     BitOr(ORIG_BASE, V1CONNECTION), pid, Len(payload) >>
                  \o payload
    IN  IF use_checksum
        THEN packet \o << SumBytes(packet) % 256, ESP_EOF >>
        ELSE packet \o << ESP_EOF >>

EncodeRequest(pid, dest, payload, type) ==
    LET use_checksum == (type = VALENTINE_ONE)
        payload_len == IF use_checksum THEN Len(payload) + 1 ELSE Len(payload)
        packet == << ESP_SOF, BitOr(DEST_BASE, dest),
                     BitOr(ORIG_BASE, V1CONNECTION), pid, payload_len >>
                  \o payload
    IN  IF use_checksum
        THEN packet \o << SumBytes(packet) % 256, ESP_EOF >>
        ELSE packet \o << ESP_EOF >>

-----------------------------------------------------------------------------
(* Frame decoding: ESPPacket and its typed views *)

NoPacket ==
    [cls |-> "None", destination |-> 0, origin |-> 0, packet_id |-> 0,
     payload |-> << >>]

\* PACKET_TYPE_MAP.get(packet_id, ESPPacket)
PacketClass(pid) ==
    CASE pid = INFDISPLAYDATA -> "InfDisplayData"
      [] pid = RESPALERTDATA -> "ResponseAlertData"
      [] pid = RESPVERSION -> "ResponseVersion"
      [] pid = RESPMAXSWEEPINDEX -> "ResponseMaxSweepIndex"
      [] pid = RESPSWEEPDEFINITION -> "ResponseSweepDefinition"
      [] OTHER -> "ESPPacket"

\* ESPPacket.__init__: the packet, or NoPacket where DeviceId(...), PacketId(...)
\* or an index raises (ValueError, IndexError)
ESPPacketInit(raw_data, type, cls) ==
    IF ~HasIdx(raw_data, 4) THEN NoPacket
    ELSE IF BitAnd(At(raw_data, 1), 15) \notin DeviceId THEN NoPacket
    ELSE IF BitAnd(At(raw_data, 2), 15) \notin DeviceId THEN NoPacket
    ELSE IF At(raw_data, 3) \notin PacketId THEN NoPacket
    ELSE LET declared == At(raw_data, 4)
             payload_len == IF type = VALENTINE_ONE /\ declared > 0
                            THEN declared - 1 ELSE declared
         IN  [cls |-> cls,
              destination |-> BitAnd(At(raw_data, 1), 15),
              origin |-> BitAnd(At(raw_data, 2), 15),
              packet_id |-> At(raw_data, 3),
              payload |-> Slice(raw_data, 5, 5 + payload_len)]

\* packet_factory: IndexError and ValueError are caught and give None
packet_factory(raw_data, type) ==
    IF ~HasIdx(raw_data, 3) THEN NoPacket
    ELSE IF At(raw_data, 3) \notin PacketId
         THEN ESPPacketInit(raw_data, type, "ESPPacket")
         ELSE ESPPacketInit(raw_data, type, PacketClass(At(raw_data, 3)))

\* InfDisplayData
is_ts_holdoff(payload) == BitAnd(At(payload, 5), 2) # 0
is_laser(payload) ==
    BitAnd(At(payload, 5), 4) # 0 /\ BitAnd(At(payload, 3), 1) # 0
get_mode(payload) ==
    IF BitAnd(At(payload, 5), 1) # 0 THEN "All Bogeys"
    ELSE IF BitAnd(At(payload, 5), 16) # 0 THEN "Adv. Logic"
    ELSE "Logic"

\* AlertData.__init__ (every index it reads exists when Len(payload) >= 7)
AlertDataOk(payload) == Len(payload) >= 7
AlertData(payload) ==
    [index |-> BitAnd(At(payload, 0) \div 16, 15),
     count |-> BitAnd(At(payload, 0), 15),
     frequency |-> At(payload, 1) * 256 + At(payload, 2),
     front_strength |-> At(payload, 3),
     rear_strength |-> At(payload, 4),
     is_priority |-> BitAnd(At(payload, 6), 128) # 0]

\* SweepDefinition.__init__: payload[0] raises IndexError on an empty
\* payload, struct.unpack raises struct.error on a slice of fewer than 2 bytes
SweepDefinitionRaises(payload) ==
    IF ~HasIdx(payload, 0) THEN "IndexError"
    ELSE IF Len(payload) < 5 THEN "struct.error"
    ELSE "none"
SweepDefinition(payload) ==
    [index |-> BitAnd(At(payload, 0), 63),
     commit |-> BitAnd(At(payload, 0), 64) # 0,
     upper_edge |-> At(payload, 1) * 256 + At(payload, 2),
     lower_edge |-> At(payload, 3) * 256 + At(payload, 4)]

-----------------------------------------------------------------------------
(* Alert reassembly: V1BleakClient._process_alert_data *)

NoCallback == [kind |-> "none", payload |-> << >>, table |-> << >>]
AlertCallback(rows) == [kind |-> "alert", payload |-> << >>, table |-> rows]
DisplayCallback(pl) == [kind |-> "display", payload |-> pl, table |-> << >>]

BufferKeys(buf) == { buf[i].index : i \in 1..Len(buf) }

\* self._alert_buffer[alert.index] = alert (a dict keeps a key's first position)
BufferPut(buf, alert) ==
    IF alert.index \in BufferKeys(buf)
    THEN [i \in 1..Len(buf) |->
              IF buf[i].index = alert.index THEN alert ELSE buf[i]]
    ELSE Append(buf, alert)

\* StaleBuffer that never finds the buffer stale
StaleBufferNever(buf, alert) == FALSE

\* the stale-generation test of line 244
StaleBuffer(buf, alert) == buf # << >> /\ buf[1].count # alert.count

\* TableComplete off by one
TableCompleteEarly(buf, alert) == Len(buf) + 1 >= alert.count

\* the completeness test of line 247
TableComplete(buf, alert) == Len(buf) = alert.count

\* SortedRows that keeps the rows in the order the dict holds them
UnsortedRows(buf) == buf

\* [self._alert_buffer[i] for i in sorted(self._alert_buffer.keys())]
RECURSIVE SortedRows(_)
SortedRows(buf) ==
    IF buf = << >> THEN << >>
    ELSE LET k == CHOOSE k \in 1..Len(buf) :
                      \A j \in 1..Len(buf) : buf[k].index <= buf[j].index
             rest == [i \in 1..(Len(buf) - 1) |->
                          IF i < k THEN buf[i] ELSE buf[i + 1]]
         IN  << buf[k] >> \o SortedRows(rest)

\* NoActiveAlerts that takes only row 0 as the "no alerts" row
NoActiveAlertsAtRowZero(alert) == alert.count = 0 /\ alert.index = 0

\* the test of line 239
NoActiveAlerts(alert) == alert.count = 0

\* the new buffer and the callback task created (NoCallback when none is)
process_alert_data(buf, alert) ==
    IF NoActiveAlerts(alert)
    THEN [buf |-> << >>, cb |-> AlertCallback(<< >>)]
    ELSE LET kept == IF StaleBuffer(buf, alert) THEN << >> ELSE buf
             put == BufferPut(kept, alert)
         IN  IF TableComplete(put, alert)
             THEN [buf |-> << >>, cb |-> AlertCallback(SortedRows(put))]
             ELSE [buf |-> put, cb |-> NoCallback]

-----------------------------------------------------------------------------
(* Pending responses: a dict PacketId -> asyncio.Queue *)

NewQueue(maxsize) == [q |-> << >>, maxsize |-> maxsize]

\* self.pending_responses[pid] = queue
SlotSet(pending, pid, queue) ==
    [p \in (DOMAIN pending) \cup {pid} |-> IF p = pid THEN queue ELSE pending[p]]

\* SlotDel that leaves the slot registered
SlotKept(pending, pid) == pending

\* if pid in self.pending_responses: del self.pending_responses[pid]
SlotDel(pending, pid) == [p \in (DOMAIN pending) \ {pid} |-> pending[p]]

\* Queue.full()
QueueFull(queue) == queue.maxsize > 0 /\ Len(queue.q) >= queue.maxsize

-----------------------------------------------------------------------------
(* The collection loop of request_sweeps (lines 298-308) *)

\* num_sweeps and the dict sweeps, rows in insertion order
NoSweeps == [num |-> 0, got |-> << >>]

\* SweepSeen that takes every index for a new one
SweepSeenNever(got, index) == FALSE

\* sweep_def.index in sweeps (line 306)
SweepSeen(got, index) == \E i \in 1..Len(got) : got[i].index = index

\* the loop of lines 302-307 run on the queue q until it is done, get() has
\* to wait or SweepDefinition raises: the dict, the queue and the exception
RECURSIVE CollectSweeps(_, _, _)
CollectSweeps(got, q, num) ==
    IF ~(Len(got) < num) \/ q = << >>
    THEN [got |-> got, q |-> q, raised |-> "none"]
    ELSE LET response == Head(q)
         IN  IF response.cls # "ResponseSweepDefinition"
             THEN CollectSweeps(got, Tail(q), num)
             ELSE IF SweepDefinitionRaises(response.payload) # "none"
             THEN [got |-> got, q |-> Tail(q),
                   raised |-> SweepDefinitionRaises(response.payload)]
             ELSE LET sweep_def == SweepDefinition(response.payload)
                  IN  CollectSweeps(IF SweepSeen(got, sweep_def.index)
                                    THEN got ELSE Append(got, sweep_def),
                                    Tail(q), num)

\* [sweeps[i] for i in sorted(sweeps.keys())]
SortedSweeps(got) == SortedRows(got)

-----------------------------------------------------------------------------
(* The notification path: V1BleakClient._notification_handler *)

\* the checksum test of lines 221-225: TRUE when the frame is dropped
ChecksumMismatch(data, type) ==
    type = VALENTINE_ONE
    /\ At(data, Len(data) - 2) # SumBytes(DropLast2(data)) % 256

\* GateAfterDisplay that only ever closes the gate
GateAfterDisplayNoReopen(payload) == FALSE

\* the flow gate after a display frame (line 230)
GateAfterDisplay(payload) == ~is_ts_holdoff(payload)

\* the dispatch of a decoded packet (lines 229-236); st holds the client's fields
Dispatch(packet, st) ==
    LET s1 ==
          IF packet.cls = "InfDisplayData"
          THEN IF ~HasIdx(packet.payload, 5)
               THEN [st EXCEPT !.raised = "IndexError"]
               ELSE [st EXCEPT !.gate = GateAfterDisplay(packet.payload),
                               !.cb = DisplayCallback(packet.payload)]
          ELSE IF packet.cls = "ResponseAlertData"
          THEN IF ~AlertDataOk(packet.payload)
               THEN [st EXCEPT !.raised = "IndexError"]
               ELSE LET r == process_alert_data(st.buf, AlertData(packet.payload))
                    IN  [st EXCEPT !.buf = r.buf, !.cb = r.cb]
          ELSE st
    IN  IF s1.raised # "none" THEN s1
        ELSE IF packet.packet_id \in DOMAIN s1.pending
        THEN IF QueueFull(s1.pending[packet.packet_id])
             THEN [s1 EXCEPT !.raised = "QueueFull"]
             ELSE [s1 EXCEPT !.pending[packet.packet_id].q = Append(@, packet)]
        ELSE s1

\* the whole handler on one notification buffer: the client's fields after it,
\* the callback task it created, the exception it raised and why it dropped
notification_handler(data, type, gate, buf, pending) ==
    LET st0 == [v1_type |-> type, gate |-> gate, buf |-> buf,
                pending |-> pending, cb |-> NoCallback, raised |-> "none",
                dropped |-> "none", packet |-> NoPacket]
    IN  IF ~(startswith_SOF(data) /\ endswith_EOF(data))
        THEN [st0 EXCEPT !.dropped = "framing"]
        ELSE IF ~HasIdx(data, 2) THEN [st0 EXCEPT !.raised = "IndexError"]
        ELSE IF BitAnd(At(data, 2), 15) \notin DeviceId
        THEN [st0 EXCEPT !.raised = "ValueError"]
        ELSE LET origin_id == BitAnd(At(data, 2), 15)
                 type1 == IF origin_id \in {VALENTINE_ONE, VALENTINE_ONE_NO_CHECKSUM}
                          THEN origin_id ELSE type
                 st1 == [st0 EXCEPT !.v1_type = type1]
             IN  IF origin_id = V1CONNECTION
                 THEN [st0 EXCEPT !.dropped = "own"]
                 ELSE IF ChecksumMismatch(data, type1)
                 THEN [st1 EXCEPT !.dropped = "checksum"]
                 ELSE LET packet == packet_factory(data, type1)
                      IN  IF packet.cls = "None"
                          THEN [st1 EXCEPT !.dropped = "malformed"]
                          ELSE Dispatch(packet, [st1 EXCEPT !.packet = packet])

-----------------------------------------------------------------------------
(* The state sink: AppState and V1Data (shared_state.py) *)

\* V1Data(); priority_alert_freq is kept in thousandths of a GHz
V1DataDefault ==
    [is_connected |-> FALSE, connection_status |-> "Disconnected",
     in_alert |-> FALSE, priority_alert_freq |-> 0,
     priority_alert_band |-> "N/A", priority_alert_direction |-> "N/A",
     priority_alert_strength |-> 0, priority_alert_front_strength |-> 0,
     priority_alert_rear_strength |-> 0, v1_mode |-> "Standby"]

\* the V1 methods AppState defines, each with the parameters a call must bind
AppStateMethods ==
    [set_v1_connection_status |-> {"is_connected", "status"},
     update_v1_alert_data |-> {"in_alert", "band", "freq", "front_str", "rear_str"},
     update_v1_mode |-> {"mode"},
     update_v1_display_info |-> {"strength"},
     set_v1_laser_alert |-> {"direction", "strength"}]

set_v1_connection_status(d, is_connected, status) ==
    LET d1 == [d EXCEPT !.is_connected = is_connected,
                        !.connection_status = status]
    IN  IF ~is_connected
        THEN [d1 EXCEPT !.in_alert = FALSE, !.v1_mode = "Standby",
                        !.priority_alert_band = "N/A",
                        !.priority_alert_freq = 0,
                        !.priority_alert_direction = "N/A",
                        !.priority_alert_strength = 0,
                        !.priority_alert_front_strength = 0,
                        !.priority_alert_rear_strength = 0]
        ELSE d1

update_v1_alert_data(d, in_alert, band, freq, front_str, rear_str) ==
    LET d1 == [d EXCEPT !.in_alert = in_alert, !.priority_alert_band = band,
                        !.priority_alert_freq = freq,
                        !.priority_alert_front_strength = front_str,
                        !.priority_alert_rear_strength = rear_str]
    IN  IF ~in_alert
        THEN [d1 EXCEPT !.priority_alert_direction = "N/A",
                        !.priority_alert_strength = 0]
        ELSE d1

\* update_v1_mode without its test of in_alert
update_v1_mode_unguarded(d, mode) == [d EXCEPT !.v1_mode = mode]

update_v1_mode(d, mode) ==
    IF ~d.in_alert THEN [d EXCEPT !.v1_mode = mode] ELSE d

update_v1_display_info(d, strength) ==
    LET front == d.priority_alert_front_strength
        rear == d.priority_alert_rear_strength
    IN  [d EXCEPT !.priority_alert_strength = strength,
                  !.priority_alert_direction =
                      IF front > rear THEN "F"
                      ELSE IF rear > front THEN "R"
                      ELSE IF front > 0 THEN "S"
                      ELSE "N/A"]

set_v1_laser_alert(d, direction, strength) ==
    [d EXCEPT !.in_alert = TRUE, !.priority_alert_band = "Laser",
              !.priority_alert_freq = 0,
              !.priority_alert_direction = direction,
              !.priority_alert_strength = strength,
              !.priority_alert_front_strength = 0,
              !.priority_alert_rear_strength = 0]

\* what Python does with self.state.<method>(**args): the exception the call
\* raises, or "none" when the arguments bind and the body runs
CallRaises(method, args) ==
    IF method \notin DOMAIN AppStateMethods THEN "AttributeError"
    ELSE IF DOMAIN args # AppStateMethods[method] THEN "TypeError"
    ELSE "none"

\* v1_data after the call (unchanged when the call raises)
CallState(d, method, args) ==
    IF CallRaises(method, args) # "none" THEN d
    ELSE CASE method = "set_v1_connection_status" ->
                  set_v1_connection_status(d, args.is_connected, args.status)
           [] method = "update_v1_alert_data" ->
                  update_v1_alert_data(d, args.in_alert, args.band, args.freq,
                                       args.front_str, args.rear_str)
           [] method = "update_v1_mode" -> update_v1_mode(d, args.mode)
           [] method = "update_v1_display_info" ->
                  update_v1_display_info(d, args.strength)
           [] method = "set_v1_laser_alert" ->
                  set_v1_laser_alert(d, args.direction, args.strength)

-----------------------------------------------------------------------------
(* The semantic mapper: V1Controller._handle_alerts, _handle_display_data *)

get_band_from_freq(freq_mhz) ==
    IF 10500 <= freq_mhz /\ freq_mhz <= 10550 THEN "X"
    ELSE IF 24050 <= freq_mhz /\ freq_mhz <= 24250 THEN "K"
    ELSE IF 33400 <= freq_mhz /\ freq_mhz <= 36000 THEN "Ka"
    ELSE IF freq_mhz = 0 THEN "Laser"
    ELSE "Unknown"

\* next((a for a in alerts if a.is_priority), None), as an index (0: None)
PriorityIndex(alerts) ==
    IF \E i \in 1..Len(alerts) : alerts[i].is_priority
    THEN CHOOSE i \in 1..Len(alerts) :
             alerts[i].is_priority /\ \A j \in 1..(i - 1) : ~alerts[j].is_priority
    ELSE 0

\* the arguments of the call at line 353 or 356
HandleAlertsArgs(alerts) ==
    LET i == PriorityIndex(alerts)
    IN  IF i # 0
        THEN [in_alert |-> TRUE,
              band |-> get_band_from_freq(alerts[i].frequency),
              freq |-> alerts[i].frequency]
        ELSE [in_alert |-> FALSE, band |-> "N/A", freq |-> 0]

\* [d: v1_data after the task, raised: the exception that ended it]
handle_alerts(d, alerts) ==
    [d |-> CallState(d, "update_v1_alert_data", HandleAlertsArgs(alerts)),
     raised |-> CallRaises("update_v1_alert_data", HandleAlertsArgs(alerts))]

handle_display_data(d, payload) ==
    LET a1 == [mode |-> get_mode(payload)]
        d1 == CallState(d, "update_v1_mode", a1)
        noargs == [x \in {} |-> 0]
    IN  IF CallRaises("update_v1_mode", a1) # "none"
        THEN [d |-> d, raised |-> CallRaises("update_v1_mode", a1)]
        ELSE IF is_laser(payload)
        THEN [d |-> CallState(d1, "update_v1_laser_alert", noargs),
              raised |-> CallRaises("update_v1_laser_alert", noargs)]
        ELSE [d |-> d1, raised |-> "none"]

-----------------------------------------------------------------------------
(* History kept for the properties; the code never reads it *)

\* lastIn: the buffer handled by the step just taken, when it was a notification
\* raised: the exception that step's handler or callback task ended with
\* pub: that step passed a table to the alert callback
\* lastDisp: byte 5 of the payload of the latest display frame dispatched (-1: none)
\* connectOk: connect() has returned True in this run
\* ret, retBy: what the API call that returned in the step just taken gave its
\*   caller, and the task that called
\* failed: the transport has failed in this run (connect, start_notify, link)
\* dropped: why that step's handler returned early ("none" when it did not)
\* packet: the packet that step's handler decoded (NoPacket when none)
\* before: the alert buffer as the notification handled in the step just taken
\*   found it: its length and the count its first row declares (0 when empty)
\* gen: the generation of alert rows being fed row by row: its size, its
\*   frequency, the indexes fed, the tables published so far and the last one
NoBuffer == [len |-> 0, count |-> 0]
BufferSeen(buf) ==
    [len |-> Len(buf), count |-> IF buf = << >> THEN 0 ELSE buf[1].count]
NoGeneration == [n |-> 0, freq |-> 0, fed |-> {}, npub |-> 0, table |-> << >>]

\* req: the request whose frame the step just taken built and decoded again
NoRequest == [pid |-> 0, dest |-> 0, payload |-> << >>]

\* sweeps: the table request_sweeps returned in the step just taken, and the
\*   rows in the order they were collected
NoTable == [table |-> << >>, got |-> << >>]

\* call: the AppState method called in the step just taken, and the mode
\*   passed when it was update_v1_mode
NoCall == [method |-> "none", mode |-> "none"]

\* band: the frequency and the laser band flag of the alert row classified,
\*   and the band _get_band_from_freq gave ("none" before it ran)
NoBand == [freq |-> 0, laser |-> FALSE, result |-> "none"]

\* attempt: how the last connect attempt ended: "ok", "failed", or "none"
\*   before the first has ended
\* early: the queue of the slot registered last holds a frame that arrived
\*   before the request's frame was handed to write_gatt_char
\* stale: the exchange that ended in the step just taken returned such a frame
\* held: while the data logger builds a row, the values v1_data has had since
\*   the row's first field was read (each the state after a complete update)
\* overtaken: for each callback task waiting (as in cbTasks), whether the
\*   handler of a later notification has since changed the gate, the alert
\*   buffer or a response queue
\* late: the callback task run in the step just taken had been overtaken

HistInit ==
    [lastIn |-> << >>, raised |-> "none", pub |-> FALSE, lastDisp |-> -1,
     connectOk |-> FALSE, ret |-> "none", retBy |-> "none",
     dropped |-> "none", packet |-> NoPacket, failed |-> FALSE,
     req |-> NoRequest, before |-> NoBuffer, gen |-> NoGeneration,
     sweeps |-> NoTable, overtaken |-> << >>, late |-> FALSE,
     call |-> NoCall, band |-> NoBand, held |-> {}, early |-> FALSE,
     stale |-> FALSE, attempt |-> "none"]

HistStep(h) ==
    [h EXCEPT !.lastIn = << >>, !.raised = "none", !.pub = FALSE,
              !.ret = "none", !.retBy = "none",
              !.dropped = "none", !.packet = NoPacket, !.req = NoRequest,
              !.before = NoBuffer, !.sweeps = NoTable, !.late = FALSE,
              !.call = NoCall, !.stale = FALSE]

\* data is a display frame the engine has to accept when its detected type is
\* type: framed, not its own, checksum right where one is due, six payload bytes
WellFormedDisplay(data, type) ==
    /\ Len(data) >= 6 /\ data[1] = ESP_SOF /\ data[Len(data)] = ESP_EOF
    /\ data[4] = INFDISPLAYDATA
    /\ LET orig == data[3] % 16
           chk == orig = VALENTINE_ONE
                  \/ (orig # VALENTINE_ONE_NO_CHECKSUM /\ type = VALENTINE_ONE)
       IN  /\ orig \in {CONCEALED_DISPLAY, REMOTE_AUDIO, SAVVY,
                         GENERAL_BROADCAST, VALENTINE_ONE_NO_CHECKSUM,
                         VALENTINE_ONE}
           /\ data[2] % 16 \in {CONCEALED_DISPLAY, REMOTE_AUDIO, SAVVY,
                                V1CONNECTION, GENERAL_BROADCAST,
                                VALENTINE_ONE_NO_CHECKSUM, VALENTINE_ONE}
           /\ chk => data[Len(data) - 1] = SumBytes(SubSeq(data, 1, Len(data) - 2)) % 256
           /\ Len(data) >= 11
           /\ data[5] >= (IF chk THEN 7 ELSE 6)

\* wire before any frame was written
NoWrite == [by |-> "none", gate |-> TRUE, frame |-> << >>]

Returned(h, t, result) == [HistStep(h) EXCEPT !.ret = result, !.retBy = t]

-----------------------------------------------------------------------------
(* Frames the detector sends in the model *)

\* a frame as the detector of type orig builds it
DetectorFrame(orig, pid, payload) ==
    LET use_checksum == (orig = VALENTINE_ONE)
        payload_len == IF use_checksum THEN Len(payload) + 1 ELSE Len(payload)
        packet == << ESP_SOF, DEST_BASE + GENERAL_BROADCAST, ORIG_BASE + orig,
                     pid, payload_len >> \o payload
    IN  IF use_checksum
        THEN packet \o << SumBytes(packet) % 256, ESP_EOF >>
        ELSE packet \o << ESP_EOF >>

\* a frame with its checksum byte off by one
Corrupt(frame) ==
    [i \in 1..Len(frame) |->
        IF i = Len(frame) - 1 THEN (frame[i] + 1) % 256 ELSE frame[i]]

\* infDisplayData payload: band byte (index 3) and aux0 byte (index 5)
DisplayPayload(band, aux0) == << 0, 0, 0, band, 0, aux0, 0, 0 >>
DisplayFrame(band, aux0) ==
    DetectorFrame(VALENTINE_ONE, INFDISPLAYDATA, DisplayPayload(band, aux0))

\* respAlertData payload of one row
AlertPayload(index, count, freq, prio) ==
    << index * 16 + count, freq \div 256, freq % 256, 5, 0, 0,
       IF prio THEN 128 ELSE 0 >>
AlertFrame(index, count, freq, prio) ==
    DetectorFrame(VALENTINE_ONE, RESPALERTDATA,
                  AlertPayload(index, count, freq, prio))

\* respVersion with payload b"V3.895\x00"
VersionFrame ==
    DetectorFrame(VALENTINE_ONE, RESPVERSION, << 86, 51, 46, 56, 57, 53, 0 >>)

\* display frames: idle, holdoff, holdoff with All Bogeys, laser alert
DisplayFrames ==
    { DisplayFrame(0, 0), DisplayFrame(0, 2), DisplayFrame(0, 3),
      DisplayFrame(1, 4) }

\* frames the handler must drop or that raise in it
BadFrames ==
    { Corrupt(DisplayFrame(0, 2)),
      DetectorFrame(V1CONNECTION, INFDISPLAYDATA, DisplayPayload(0, 2)),
      Tail(DisplayFrame(0, 2)),
      DetectorFrame(VALENTINE_ONE, INFDISPLAYDATA, << 0, 2 >>) }

-----------------------------------------------------------------------------
(* The notification and callback steps of the event loop *)

\* run_until_complete is running the loop: run() has started the task and the
\* task has not ended (the loop is closed when it has)
LoopRunning == pc \notin {"start", "restart", "finished"}

\* the calls that go through _request_and_wait
Correlated == { "request_version", "request_sweeps" }

\* tasks waiting in can_send_event.wait() are woken by Event.set()
EventSetWakes(p, before, after) ==
    [t \in DOMAIN p |->
        IF ~before /\ after /\ p[t] = "gate_wait" THEN "gate_woken" ELSE p[t]]

\* the handler runs on data; h is the history the step starts from
NotifyFrom(data, h) ==
    /\ subscribed /\ linkUp /\ LoopRunning
    /\ \E r \in { notification_handler(data, v1_type, can_send_event,
                                        alert_buffer, pending_responses) } :
           /\ r.cb.kind # "none" => Len(cbTasks) < MaxCb
           /\ \A p \in DOMAIN r.pending : Len(r.pending[p].q) <= MaxSweeps
           /\ v1_type' = r.v1_type
           /\ can_send_event' = r.gate
           /\ alert_buffer' = r.buf
           /\ pending_responses' = r.pending
           /\ cbTasks' = IF r.cb.kind # "none" THEN Append(cbTasks, r.cb)
                         ELSE cbTasks
           /\ tpc' = EventSetWakes(tpc, can_send_event, r.gate)
           /\ hist' = [HistStep(h) EXCEPT
                         !.lastIn = data,
                         !.raised = r.raised,
                         !.pub = (r.cb.kind = "alert"),
                         !.dropped = r.dropped,
                         !.packet = r.packet,
                         !.before = BufferSeen(alert_buffer),
                         !.early =
                             \/ h.early
                             \/ /\ \E p \in DOMAIN pending_responses :
                                        Len(r.pending[p].q)
                                            > Len(pending_responses[p].q)
                                /\ \E t \in DOMAIN tpc :
                                        /\ tctx[t] \in Correlated
                                        /\ tpc[t] \in {"gate_wait",
                                                        "gate_woken"},
                         !.overtaken =
                             [i \in 1..Len(cbTasks) |->
                                 \/ h.overtaken[i]
                                 \/ r.gate # can_send_event
                                 \/ r.buf # alert_buffer
                                 \/ r.pending # pending_responses]
                             \o (IF r.cb.kind # "none" THEN << FALSE >>
                                 ELSE << >>),
                         !.lastDisp = IF WellFormedDisplay(data, v1_type)
                                      THEN data[11] ELSE @]
    /\ UNCHANGED << client, linkUp, subscribed, lockLocked, lockWaiters, tctx, sweeps,
                    wire, v1_data, app_running, firmware_version, v1_reconnect_request, logRow, pc, exc, cancelReq >>

Notify(data) == NotifyFrom(data, hist)

\* the oldest callback task runs (it has no await: it runs to its end)
RunCallback ==
    /\ cbTasks # << >> /\ LoopRunning
    /\ LET cb == Head(cbTasks)
           r == IF cb.kind = "alert" THEN handle_alerts(v1_data, cb.table)
                ELSE handle_display_data(v1_data, cb.payload)
       IN  /\ v1_data' = r.d
           /\ hist' = [HistStep(hist) EXCEPT !.raised = r.raised,
                                             !.late = Head(hist.overtaken),
                                             !.overtaken = Tail(@)]
    /\ cbTasks' = Tail(cbTasks)
    /\ UNCHANGED << client, linkUp, subscribed, v1_type, can_send_event,
                    alert_buffer, pending_responses, lockLocked, lockWaiters,
                    tpc, tctx, sweeps, wire, app_running, firmware_version, v1_reconnect_request, logRow, pc, exc, cancelReq >>

\* the BLE link drops
LinkDrop ==
    /\ linkUp
    /\ linkUp' = FALSE /\ subscribed' = FALSE
    /\ hist' = [HistStep(hist) EXCEPT !.failed = TRUE]
    /\ UNCHANGED << client, v1_type, can_send_event, alert_buffer,
                    pending_responses, lockLocked, lockWaiters, tpc, tctx, sweeps, wire,
                    cbTasks, v1_data, app_running, firmware_version, v1_reconnect_request, logRow, pc, exc, cancelReq >>

-----------------------------------------------------------------------------
(* The session task: V1Controller.run_async, one action per resumption *)

\* the positions at which the task is suspended in an await
Suspended ==
    { "scan", "sleep15", "connect", "start_notify", "cleanup_disconnect",
      "final_disconnect" }

\* the calls of lines 395 and 410 bind one positional argument
Line395Args == [is_connected |-> TRUE]
Line410Args == [is_connected |-> FALSE]

\* while self.state.get_app_running(): the loop is left with no client, so the
\* outer finally has nothing to disconnect
LoopTop(running) == IF running THEN "scan" ELSE "finished"

\* lines 410-414 and what follows, entered with exception e in flight and
\* client = None: [pc, exc, d].  No run reaches "sleep5": the call of line 410
\* raises, so the model has no action for that position.
PublishDisconnected(d, e, running) ==
    LET r == CallRaises("set_v1_connection_status", Line410Args)
        d1 == CallState(d, "set_v1_connection_status", Line410Args)
    IN  IF r # "none" THEN [pc |-> "finished", exc |-> r, d |-> d]
        ELSE IF running THEN [pc |-> "sleep5", exc |-> e, d |-> d1]
        ELSE [pc |-> "finished",
              exc |-> IF e = "CancelledError" THEN "none" ELSE e, d |-> d1]

\* the inner finally from line 406 on, entered with exception e in flight,
\* client c and link l: disconnect() awaits client.disconnect() only when the
\* link is up, and else sets client = None at once
InnerFinally(e, c, l) ==
    IF c # "None" /\ l
    THEN /\ pc' = "cleanup_disconnect" /\ exc' = e /\ client' = c
         /\ UNCHANGED v1_data
    ELSE LET r == PublishDisconnected(v1_data, e, app_running)
         IN  /\ pc' = r.pc /\ exc' = r.exc /\ v1_data' = r.d
             /\ client' = "None"

\* run(): the loop and the task are created and the task runs to its first await
Start ==
    /\ pc \in {"start", "restart"}
    /\ pc' = LoopTop(app_running)
    /\ hist' = HistStep(hist)
    /\ UNCHANGED << client, linkUp, subscribed, v1_type, can_send_event,
                    alert_buffer, pending_responses, lockLocked, lockWaiters,
                    tpc, tctx, sweeps, wire, cbTasks, v1_data, app_running, firmware_version, v1_reconnect_request, logRow, exc,
                    cancelReq >>

\* scan() returns: a device (connect() starts), or None (also on a scan error)
ScanDone(found) ==
    /\ pc = "scan"
    /\ IF found
       THEN /\ client' = "BleakClient" /\ pc' = "connect"
       ELSE /\ client' = client /\ pc' = "sleep15"
    /\ hist' = HistStep(hist)
    /\ UNCHANGED << linkUp, subscribed, v1_type, can_send_event, alert_buffer,
                    pending_responses, lockLocked, lockWaiters, tpc, tctx, sweeps, wire,
                    cbTasks, v1_data, app_running, firmware_version, v1_reconnect_request, logRow, exc, cancelReq >>

\* asyncio.sleep(15) of line 390 returns
Sleep15Done ==
    /\ pc = "sleep15"
    /\ pc' = LoopTop(app_running)
    /\ hist' = HistStep(hist)
    /\ UNCHANGED << client, linkUp, subscribed, v1_type, can_send_event,
                    alert_buffer, pending_responses, lockLocked, lockWaiters,
                    tpc, tctx, sweeps, wire, cbTasks, v1_data, app_running, firmware_version, v1_reconnect_request, logRow, exc,
                    cancelReq >>

\* client.connect() returns (start_notify starts) or raises (connect() returns
\* False and the inner finally runs)
ConnectDone(ok) ==
    /\ pc = "connect"
    /\ IF ok
       THEN /\ linkUp' = TRUE /\ client' = client /\ pc' = "start_notify"
            /\ UNCHANGED << exc, v1_data >>
       ELSE /\ linkUp' = linkUp
            /\ InnerFinally("none", "None", linkUp)
    /\ hist' = [HistStep(hist) EXCEPT
                  !.failed = @ \/ ~ok,
                  !.attempt = IF ok THEN @ ELSE "failed"]
    /\ UNCHANGED << subscribed, v1_type, can_send_event, alert_buffer,
                    pending_responses, lockLocked, lockWaiters, tpc, tctx, sweeps, wire,
                    cbTasks, app_running, firmware_version, v1_reconnect_request, logRow, cancelReq >>

\* what follows connect() returning True (lines 395-401): [raised, d].  The
\* startup checks are reached only when the call of line 395 binds.
PublishConnected(d) ==
    [raised |-> CallRaises("set_v1_connection_status", Line395Args),
     d |-> CallState(d, "set_v1_connection_status", Line395Args)]

\* start_notify returns: connect() returns True, line 395 runs.  When it
\* raises, the inner finally runs with that exception in flight.
StartNotifyOk ==
    /\ pc = "start_notify" /\ linkUp
    /\ subscribed' = TRUE /\ v1_type' = VALENTINE_ONE
    /\ UNCHANGED linkUp
    /\ LET r == PublishConnected(v1_data)
       IN  IF r.raised # "none"
           THEN InnerFinally(r.raised, client, linkUp)
           ELSE /\ pc' = "startup" /\ exc' = exc /\ v1_data' = r.d
                /\ client' = client
    /\ hist' = [HistStep(hist) EXCEPT !.connectOk = TRUE, !.attempt = "ok"]
    /\ UNCHANGED << can_send_event, alert_buffer, pending_responses, lockLocked,
                    lockWaiters, tpc, tctx, sweeps, wire, cbTasks, app_running, firmware_version, v1_reconnect_request, logRow,
                    cancelReq >>

\* start_notify raises: connect() sets client = None and returns False; the
\* link it opened is left as it is
StartNotifyFail ==
    /\ pc = "start_notify"
    /\ linkUp' = linkUp
    /\ InnerFinally("none", "None", linkUp)
    /\ hist' = [HistStep(hist) EXCEPT !.failed = TRUE, !.attempt = "failed"]
    /\ UNCHANGED << subscribed, v1_type, can_send_event, alert_buffer,
                    pending_responses, lockLocked, lockWaiters, tpc, tctx, sweeps, wire,
                    cbTasks, app_running, firmware_version, v1_reconnect_request, logRow, cancelReq >>

\* client.disconnect() of the inner finally returns: client = None, line 410
CleanupDisconnectDone ==
    /\ pc = "cleanup_disconnect"
    /\ linkUp' = FALSE /\ subscribed' = FALSE /\ client' = "None"
    /\ LET r == PublishDisconnected(v1_data, exc, app_running)
       IN  /\ pc' = r.pc /\ exc' = r.exc /\ v1_data' = r.d
    /\ hist' = HistStep(hist)
    /\ UNCHANGED << v1_type, can_send_event, alert_buffer, pending_responses,
                    lockLocked, lockWaiters, tpc, tctx, sweeps, wire, cbTasks,
                    app_running, firmware_version, v1_reconnect_request, logRow, cancelReq >>

\* client.disconnect() of the outer finally (line 419) returns
FinalDisconnectDone ==
    /\ pc = "final_disconnect"
    /\ linkUp' = FALSE /\ subscribed' = FALSE /\ client' = "None"
    /\ pc' = "finished"
    /\ hist' = HistStep(hist)
    /\ UNCHANGED << v1_type, can_send_event, alert_buffer, pending_responses,
                    lockLocked, lockWaiters, tpc, tctx, sweeps, wire, cbTasks, v1_data,
                    app_running, firmware_version, v1_reconnect_request, logRow, exc, cancelReq >>

\* main_task.cancel() takes effect: CancelledError is raised at the await the
\* task is suspended in
DeliverCancel ==
    /\ cancelReq = "queued" /\ pc \in Suspended
    /\ cancelReq' = "delivered"
    /\ CASE pc \in {"scan", "sleep15"} ->
              \* caught at line 415; the outer finally finds no client
              /\ pc' = "finished" /\ exc' = "none"
              /\ UNCHANGED << client, v1_data >>
         [] pc \in {"connect", "start_notify"} ->
              \* passes connect()'s except Exception; the inner finally runs
              InnerFinally("CancelledError", client, linkUp)
         [] pc = "cleanup_disconnect" ->
              \* raised inside disconnect(): client is not reset, line 410 is
              \* skipped, line 415 catches, line 418 tests the link
              /\ pc' = IF linkUp THEN "final_disconnect" ELSE "finished"
              /\ exc' = "none"
              /\ UNCHANGED << client, v1_data >>
         [] pc = "final_disconnect" ->
              /\ pc' = "finished" /\ exc' = "CancelledError"
              /\ UNCHANGED << client, v1_data >>
    /\ hist' = HistStep(hist)
    /\ UNCHANGED << linkUp, subscribed, v1_type, can_send_event, alert_buffer,
                    pending_responses, lockLocked, lockWaiters, tpc, tctx, sweeps, wire,
                    cbTasks, app_running, firmware_version, v1_reconnect_request, logRow >>

-----------------------------------------------------------------------------
(* The main thread: run_full_mode's watchdog loop and finally block (main.py) *)

\* state.set_app_running(False)
Interrupt ==
    /\ app_running
    /\ app_running' = FALSE
    /\ hist' = HistStep(hist)
    /\ UNCHANGED << client, linkUp, subscribed, v1_type, can_send_event,
                    alert_buffer, pending_responses, lockLocked, lockWaiters,
                    tpc, tctx, sweeps, wire, cbTasks, v1_data, pc, exc, cancelReq,
                    firmware_version, v1_reconnect_request, logRow >>

\* the watchdog loop (main.py lines 71-83): while the application runs, a dead
\* controller thread is replaced by a new one on the same V1Controller.  Its
\* run() has not begun yet: self.loop is still the closed loop, whose tasks
\* never run again.
WatchdogRestart ==
    /\ app_running /\ pc = "finished"
    /\ pc' = "restart" /\ exc' = "none"
    /\ cbTasks' = << >>
    /\ hist' = [HistStep(hist) EXCEPT !.connectOk = FALSE, !.failed = FALSE,
                                      !.overtaken = << >>]
    /\ UNCHANGED << client, linkUp, subscribed, v1_type, can_send_event,
                    alert_buffer, pending_responses, lockLocked, lockWaiters,
                    tpc, tctx, sweeps, wire, v1_data, app_running, firmware_version, v1_reconnect_request, logRow, cancelReq >>

\* V1Controller.shutdown(): nothing before the first run() has made the loop;
\* call_soon_threadsafe raises RuntimeError once the loop is closed
Shutdown ==
    /\ ~app_running /\ cancelReq = "no"
    /\ cancelReq' = CASE pc = "start" -> "noop"
                      [] pc \in {"finished", "restart"} -> "RuntimeError"
                      [] OTHER -> "queued"
    /\ hist' = HistStep(hist)
    /\ UNCHANGED << client, linkUp, subscribed, v1_type, can_send_event,
                    alert_buffer, pending_responses, lockLocked, lockWaiters,
                    tpc, tctx, sweeps, wire, cbTasks, v1_data, app_running, firmware_version, v1_reconnect_request, logRow, pc, exc >>

-----------------------------------------------------------------------------
(* The program: the session task, the event loop and the main thread *)

SessionFrames ==
    DisplayFrames \cup BadFrames
    \cup { AlertFrame(0, 0, 0, FALSE), AlertFrame(0, 1, 34700, TRUE),
           AlertFrame(1, 2, 24150, FALSE) }

EmptyMap == [x \in {} |-> 0]

Init ==
    /\ client = "None" /\ linkUp = FALSE /\ subscribed = FALSE
    /\ v1_type = UNKNOWN_DEVICE
    /\ can_send_event = TRUE
    /\ alert_buffer = << >>
    /\ pending_responses = EmptyMap
    /\ lockLocked = FALSE /\ lockWaiters = << >>
    /\ tpc = EmptyMap /\ tctx = EmptyMap /\ sweeps = EmptyMap
    /\ wire = NoWrite
    /\ cbTasks = << >>
    /\ v1_data = V1DataDefault
    /\ app_running = TRUE
    /\ firmware_version = 0
    /\ v1_reconnect_request = FALSE
    /\ logRow = << >>
    /\ pc = "start" /\ exc = "none" /\ cancelReq = "no"
    /\ hist = HistInit

Next ==
    \/ Start
    \/ \E found \in BOOLEAN : ScanDone(found)
    \/ Sleep15Done
    \/ \E ok \in BOOLEAN : ConnectDone(ok)
    \/ StartNotifyOk
    \/ StartNotifyFail
    \/ CleanupDisconnectDone
    \/ FinalDisconnectDone
    \/ DeliverCancel
    \/ Interrupt
    \/ WatchdogRestart
    \/ Shutdown
    \/ LinkDrop
    \/ \E data \in SessionFrames : Notify(data)
    \/ RunCallback

Spec == Init /\ [][Next]_vars

-----------------------------------------------------------------------------
(* The session beside the web interface: a web request thread raises the     *)
(* manual reconnect request (web/app.py runs in full mode next to the        *)
(* controller)                                                               *)

\* POST /actions/reconnect_v1: state.set_v1_reconnect_request().  The flag is
\* read by get_and_clear_v1_reconnect_request alone, which nothing calls, so
\* the model has no action that clears it.
action_reconnect_v1 ==
    /\ v1_reconnect_request' = TRUE
    /\ hist' = HistStep(hist)
    /\ UNCHANGED << client, linkUp, subscribed, v1_type, can_send_event,
                    alert_buffer, pending_responses, lockLocked, lockWaiters,
                    tpc, tctx, sweeps, wire, cbTasks, v1_data, app_running,
                    firmware_version, logRow, pc, exc, cancelReq >>

NextReconnect ==
    \/ Next
    \/ action_reconnect_v1

\* the event loop resumes the session task whenever what it awaits is done and
\* runs every ready callback task; the watchdog loop of main.py keeps running
FairSession ==
    /\ WF_vars(Start)
    /\ WF_vars(\E found \in BOOLEAN : ScanDone(found))
    /\ WF_vars(Sleep15Done)
    /\ WF_vars(\E ok \in BOOLEAN : ConnectDone(ok))
    /\ WF_vars(StartNotifyOk \/ StartNotifyFail)
    /\ WF_vars(CleanupDisconnectDone)
    /\ WF_vars(FinalDisconnectDone)
    /\ WF_vars(DeliverCancel)
    /\ WF_vars(RunCallback)
    /\ WF_vars(WatchdogRestart)

SpecReconnect == Init /\ [][NextReconnect]_vars /\ FairSession

-----------------------------------------------------------------------------
(* The correlator and the flow gate: V1BleakClient._send_request,            *)
(* _request_and_wait, request_version, start_alert_data.  The client is      *)
(* driven by tasks that call its API concurrently on the event loop.         *)

Tasks == { "t1", "t2" }

Connected == client # "None" /\ linkUp

\* LockFree without its test of the holder
LockFreeNoHolderTest(locked, waiters) == waiters = << >>

\* asyncio.Lock.acquire takes the lock at once when it is free and nobody waits
LockFree(locked, waiters) == ~locked /\ waiters = << >>

\* asyncio.Lock.release: _wake_up_first sets the first waiter's future
WakeFirst(waiters) ==
    IF waiters = << >> THEN waiters
    ELSE [waiters EXCEPT ![1].woken = TRUE]

RECURSIVE WithoutTask(_, _)
WithoutTask(waiters, t) ==
    IF waiters = << >> THEN << >>
    ELSE IF Head(waiters).t = t THEN Tail(waiters)
    ELSE << Head(waiters) >> \o WithoutTask(Tail(waiters), t)

\* wire after task t hands the frame of request pid to write_gatt_char; gate
\* records the value of can_send_event at that moment
WireEntry(t, pid) ==
    [by |-> t, gate |-> can_send_event,
     frame |-> EncodeRequest(pid, VALENTINE_ONE, << >>, v1_type)]

\* the request and response ids of each API call; request_sweeps is in
\* "request_sweeps" during its _request_and_wait (line 289) and in
\* "collect_sweeps" from line 296 on
ReqOf(op) ==
    CASE op = "request_version" -> REQVERSION
      [] op = "request_sweeps" -> REQMAXSWEEPINDEX
      [] op = "collect_sweeps" -> REQALLSWEEPDEFINITIONS
      [] OTHER -> REQSTARTALERTDATA
RespOf(op) ==
    CASE op = "request_sweeps" -> RESPMAXSWEEPINDEX
      [] op = "collect_sweeps" -> RESPSWEEPDEFINITION
      [] OTHER -> RESPVERSION

\* _send_request past its connection test: write at once when the gate is
\* open, else wait on can_send_event
SendOrWait(t, op) ==
    IF can_send_event
    THEN /\ wire' = WireEntry(t, ReqOf(op))
         /\ tpc' = [tpc EXCEPT ![t] = "writing"]
    ELSE /\ wire' = wire
         /\ tpc' = [tpc EXCEPT ![t] = "gate_wait"]

\* _request_and_wait once the lock is held, waiters being the lock's queue:
\* register the slot and send; ConnectionError runs the finally and releases
EnterExchange(t, op, waiters) ==
    IF ~Connected
    THEN /\ pending_responses' =
                SlotDel(SlotSet(pending_responses, RespOf(op), NewQueue(1)),
                        RespOf(op))
         /\ lockLocked' = FALSE /\ lockWaiters' = WakeFirst(waiters)
         /\ tpc' = [tpc EXCEPT ![t] = "idle"]
         /\ tctx' = [tctx EXCEPT ![t] = "none"]
         /\ hist' = Returned(hist, t, "ConnectionError")
         /\ wire' = wire
    ELSE /\ pending_responses' =
                SlotSet(pending_responses, RespOf(op), NewQueue(1))
         /\ lockLocked' = TRUE /\ lockWaiters' = waiters
         /\ tctx' = [tctx EXCEPT ![t] = op]
         /\ hist' = [HistStep(hist) EXCEPT !.early = FALSE]
         /\ SendOrWait(t, op)

\* the finally of _request_and_wait and the release of the lock
ExitExchange(t, result) ==
    /\ pending_responses' = SlotDel(pending_responses, RespOf(tctx[t]))
    /\ lockLocked' = FALSE /\ lockWaiters' = WakeFirst(lockWaiters)
    /\ tpc' = [tpc EXCEPT ![t] = "idle"]
    /\ tctx' = [tctx EXCEPT ![t] = "none"]
    /\ hist' = [Returned(hist, t, result) EXCEPT
                  !.stale = hist.early /\ result = "response"]

\* a task calls request_version(): _request_and_wait acquires the lock or waits
CallRequestVersion(t) ==
    /\ tpc[t] = "idle"
    /\ IF LockFree(lockLocked, lockWaiters)
       THEN EnterExchange(t, "request_version", lockWaiters)
       ELSE /\ lockWaiters' = Append(lockWaiters, [t |-> t, woken |-> FALSE])
            /\ tpc' = [tpc EXCEPT ![t] = "lock_wait"]
            /\ tctx' = [tctx EXCEPT ![t] = "request_version"]
            /\ hist' = HistStep(hist)
            /\ UNCHANGED << pending_responses, lockLocked, wire >>
    /\ UNCHANGED << client, linkUp, subscribed, v1_type, can_send_event,
                    alert_buffer, sweeps, cbTasks, v1_data, app_running, firmware_version, v1_reconnect_request, logRow, pc,
                    exc, cancelReq >>

\* a task woken by the lock's release resumes in acquire and enters
LockResume(t) ==
    /\ tpc[t] = "lock_wait"
    /\ \E i \in 1..Len(lockWaiters) : lockWaiters[i].t = t /\ lockWaiters[i].woken
    /\ EnterExchange(t, tctx[t], WithoutTask(lockWaiters, t))
    /\ UNCHANGED << client, linkUp, subscribed, v1_type, can_send_event,
                    alert_buffer, sweeps, cbTasks, v1_data, app_running, firmware_version, v1_reconnect_request, logRow, pc,
                    exc, cancelReq >>

\* a task calls start_alert_data(): _send_request with no lock and no slot
CallStartAlert(t) ==
    /\ tpc[t] = "idle"
    /\ IF ~Connected
       THEN /\ hist' = Returned(hist, t, "ConnectionError")
            /\ UNCHANGED << tpc, tctx, wire >>
       ELSE /\ tctx' = [tctx EXCEPT ![t] = "start_alert_data"]
            /\ hist' = HistStep(hist)
            /\ SendOrWait(t, "start_alert_data")
    /\ UNCHANGED << client, linkUp, subscribed, v1_type, can_send_event,
                    alert_buffer, pending_responses, lockLocked, lockWaiters,
                    sweeps, cbTasks, v1_data, app_running, firmware_version, v1_reconnect_request, logRow, pc, exc,
                    cancelReq >>

\* a task whose wait on can_send_event was ended by set() resumes: wait()
\* returns True and the frame is built and written
GateResume(t) ==
    /\ tpc[t] = "gate_woken"
    /\ wire' = WireEntry(t, ReqOf(tctx[t]))
    /\ tpc' = [tpc EXCEPT ![t] = "writing"]
    /\ hist' = HistStep(hist)
    /\ UNCHANGED << client, linkUp, subscribed, v1_type, can_send_event,
                    alert_buffer, pending_responses, lockLocked, lockWaiters,
                    tctx, sweeps, cbTasks, v1_data, app_running, firmware_version, v1_reconnect_request, logRow, pc, exc, cancelReq >>

\* write_gatt_char returns (the link is up) or raises, in start_alert_data
\* or in _request_and_wait
WriteDone(t, ok) ==
    /\ tpc[t] = "writing" /\ tctx[t] # "collect_sweeps"
    /\ ok => linkUp
    /\ IF tctx[t] = "start_alert_data"
       THEN /\ tpc' = [tpc EXCEPT ![t] = "idle"]
            /\ tctx' = [tctx EXCEPT ![t] = "none"]
            /\ hist' = Returned(hist, t, IF ok THEN "sent" ELSE "BleakError")
            /\ UNCHANGED << pending_responses, lockLocked, lockWaiters >>
       ELSE IF ok
            THEN /\ tpc' = [tpc EXCEPT ![t] = "resp_wait"]
                 /\ hist' = HistStep(hist)
                 /\ UNCHANGED << tctx, pending_responses, lockLocked,
                                 lockWaiters >>
            ELSE ExitExchange(t, "BleakError")
    /\ UNCHANGED << client, linkUp, subscribed, v1_type, can_send_event,
                    alert_buffer, sweeps, wire, cbTasks, v1_data, app_running, firmware_version, v1_reconnect_request, logRow,
                    pc, exc, cancelReq >>

\* response_queue.get() returns the frame the handler queued, in
\* request_version
RespReady(t) ==
    /\ tpc[t] = "resp_wait" /\ tctx[t] = "request_version"
    /\ pending_responses[RespOf(tctx[t])].q # << >>
    /\ ExitExchange(t, "response")
    /\ UNCHANGED << client, linkUp, subscribed, v1_type, can_send_event,
                    alert_buffer, sweeps, wire, cbTasks, v1_data, app_running, firmware_version, v1_reconnect_request, logRow,
                    pc, exc, cancelReq >>

\* wait_for times out: _request_and_wait returns None
Timeout(t) ==
    /\ tpc[t] = "resp_wait"
    /\ pending_responses[RespOf(tctx[t])].q = << >>
    /\ ExitExchange(t, "None")
    /\ UNCHANGED << client, linkUp, subscribed, v1_type, can_send_event,
                    alert_buffer, sweeps, wire, cbTasks, v1_data, app_running, firmware_version, v1_reconnect_request, logRow,
                    pc, exc, cancelReq >>

-----------------------------------------------------------------------------
(* The bulk collection: V1BleakClient.request_sweeps.  One task of the       *)
(* model calls it, so the queue of the RESPSWEEPDEFINITION slot is always    *)
(* that call's own sweep_queue.                                              *)

\* a task calls request_sweeps(): _request_and_wait of line 289 acquires the
\* lock or waits
CallRequestSweeps(t) ==
    /\ tpc[t] = "idle"
    /\ IF LockFree(lockLocked, lockWaiters)
       THEN EnterExchange(t, "request_sweeps", lockWaiters)
       ELSE /\ lockWaiters' = Append(lockWaiters, [t |-> t, woken |-> FALSE])
            /\ tpc' = [tpc EXCEPT ![t] = "lock_wait"]
            /\ tctx' = [tctx EXCEPT ![t] = "request_sweeps"]
            /\ hist' = HistStep(hist)
            /\ UNCHANGED << pending_responses, lockLocked, wire >>
    /\ UNCHANGED << client, linkUp, subscribed, v1_type, can_send_event,
                    alert_buffer, sweeps, cbTasks, v1_data, app_running, firmware_version, v1_reconnect_request, logRow, pc,
                    exc, cancelReq >>

\* request_sweeps returns or raises result; its finally has removed the slot
SweepsReturn(t, pending, result) ==
    /\ pending_responses' = SlotDel(pending, RESPSWEEPDEFINITION)
    /\ sweeps' = [sweeps EXCEPT ![t] = NoSweeps]
    /\ tpc' = [tpc EXCEPT ![t] = "idle"]
    /\ tctx' = [tctx EXCEPT ![t] = "none"]
    /\ hist' = Returned(hist, t, result)

\* the response to reqMaxSweepIndex is there: _request_and_wait returns it,
\* the lock is released, and lines 290-300 run up to the first await that
\* suspends.  The slot of line 297 is registered with the lock released.
MaxIndexReady(t) ==
    /\ tpc[t] = "resp_wait" /\ tctx[t] = "request_sweeps"
    /\ pending_responses[RESPMAXSWEEPINDEX].q # << >>
    /\ lockLocked' = FALSE /\ lockWaiters' = WakeFirst(lockWaiters)
    /\ LET max_idx_resp == Head(pending_responses[RESPMAXSWEEPINDEX].q)
           released == SlotDel(pending_responses, RESPMAXSWEEPINDEX)
       IN  IF ~HasIdx(max_idx_resp.payload, 0)
           THEN \* max_sweep_index reads payload[0]
                /\ SweepsReturn(t, released, "IndexError")
                /\ wire' = wire
           ELSE IF ~Connected
           THEN /\ SweepsReturn(t, released, "ConnectionError")
                /\ wire' = wire
           ELSE /\ pending_responses' =
                       SlotSet(released, RESPSWEEPDEFINITION, NewQueue(0))
                /\ sweeps' = [sweeps EXCEPT ![t] =
                                 [num |-> At(max_idx_resp.payload, 0) + 1,
                                  got |-> << >>]]
                /\ tctx' = [tctx EXCEPT ![t] = "collect_sweeps"]
                /\ hist' = [HistStep(hist) EXCEPT !.stale = hist.early]
                /\ SendOrWait(t, "collect_sweeps")
    /\ UNCHANGED << client, linkUp, subscribed, v1_type, can_send_event,
                    alert_buffer, cbTasks, v1_data, app_running, firmware_version, v1_reconnect_request, logRow, pc, exc,
                    cancelReq >>

\* the collection loop runs from the queue as far as it can: the call returns
\* the sorted table, raises what SweepDefinition raised, or suspends in get()
CollectStep(t) ==
    \E r \in { CollectSweeps(sweeps[t].got,
                             pending_responses[RESPSWEEPDEFINITION].q,
                             sweeps[t].num) } :
        IF r.raised # "none"
        THEN SweepsReturn(t, pending_responses, r.raised)
        ELSE IF ~(Len(r.got) < sweeps[t].num)
        THEN /\ pending_responses' =
                    SlotDel(pending_responses, RESPSWEEPDEFINITION)
             /\ sweeps' = [sweeps EXCEPT ![t] = NoSweeps]
             /\ tpc' = [tpc EXCEPT ![t] = "idle"]
             /\ tctx' = [tctx EXCEPT ![t] = "none"]
             /\ hist' = [Returned(hist, t, "table") EXCEPT
                           !.sweeps = [table |-> SortedSweeps(r.got),
                                       got |-> r.got]]
        ELSE /\ pending_responses' =
                    [pending_responses EXCEPT ![RESPSWEEPDEFINITION].q = r.q]
             /\ sweeps' = [sweeps EXCEPT ![t].got = r.got]
             /\ tpc' = [tpc EXCEPT ![t] = "collect_wait"]
             /\ tctx' = tctx
             /\ hist' = HistStep(hist)

\* write_gatt_char of line 300 returns, and the loop starts, or raises
CollectWriteDone(t, ok) ==
    /\ tpc[t] = "writing" /\ tctx[t] = "collect_sweeps"
    /\ ok => linkUp
    /\ IF ok THEN CollectStep(t)
       ELSE SweepsReturn(t, pending_responses, "BleakError")
    /\ UNCHANGED << client, linkUp, subscribed, v1_type, can_send_event,
                    alert_buffer, lockLocked, lockWaiters, wire, cbTasks,
                    v1_data, app_running, firmware_version, v1_reconnect_request, logRow, pc, exc, cancelReq >>

\* sweep_queue.get() returns: the handler has queued a frame
CollectReady(t) ==
    /\ tpc[t] = "collect_wait"
    /\ pending_responses[RESPSWEEPDEFINITION].q # << >>
    /\ CollectStep(t)
    /\ UNCHANGED << client, linkUp, subscribed, v1_type, can_send_event,
                    alert_buffer, lockLocked, lockWaiters, wire, cbTasks,
                    v1_data, app_running, firmware_version, v1_reconnect_request, logRow, pc, exc, cancelReq >>

\* asyncio.timeout(10.0) expires while get() waits: request_sweeps returns None
CollectTimeout(t) ==
    /\ tpc[t] = "collect_wait"
    /\ pending_responses[RESPSWEEPDEFINITION].q = << >>
    /\ SweepsReturn(t, pending_responses, "None")
    /\ UNCHANGED << client, linkUp, subscribed, v1_type, can_send_event,
                    alert_buffer, lockLocked, lockWaiters, wire, cbTasks,
                    v1_data, app_running, firmware_version, v1_reconnect_request, logRow, pc, exc, cancelReq >>

\* the task is cancelled at the await it is suspended in: CancelledError
\* passes every finally of the call it is in.  In Lock.acquire the waiter
\* leaves the queue and, the lock being free, wakes the next one.
CancelTask(t) ==
    /\ tpc[t] \in { "lock_wait", "gate_wait", "gate_woken", "writing",
                    "resp_wait", "collect_wait" }
    /\ IF tpc[t] = "lock_wait"
       THEN /\ lockWaiters' =
                   IF lockLocked THEN WithoutTask(lockWaiters, t)
                   ELSE WakeFirst(WithoutTask(lockWaiters, t))
            /\ tpc' = [tpc EXCEPT ![t] = "idle"]
            /\ tctx' = [tctx EXCEPT ![t] = "none"]
            /\ hist' = Returned(hist, t, "CancelledError")
            /\ UNCHANGED << pending_responses, lockLocked, sweeps >>
       ELSE IF tctx[t] \in Correlated
       THEN /\ ExitExchange(t, "CancelledError")
            /\ UNCHANGED sweeps
       ELSE IF tctx[t] = "collect_sweeps"
       THEN /\ SweepsReturn(t, pending_responses, "CancelledError")
            /\ UNCHANGED << lockLocked, lockWaiters >>
       ELSE /\ tpc' = [tpc EXCEPT ![t] = "idle"]
            /\ tctx' = [tctx EXCEPT ![t] = "none"]
            /\ hist' = Returned(hist, t, "CancelledError")
            /\ UNCHANGED << pending_responses, lockLocked, lockWaiters,
                            sweeps >>
    /\ UNCHANGED << client, linkUp, subscribed, v1_type, can_send_event,
                    alert_buffer, wire, cbTasks, v1_data, app_running, firmware_version, v1_reconnect_request, logRow, pc, exc,
                    cancelReq >>

ClientFrames ==
    { DisplayFrame(0, 0), DisplayFrame(0, 2), VersionFrame,
      AlertFrame(0, 0, 0, FALSE), Corrupt(DisplayFrame(0, 2)),
      DetectorFrame(V1CONNECTION, INFDISPLAYDATA, DisplayPayload(0, 2)) }

\* the client as connect() leaves it when it returns True
InitClient ==
    /\ client = "BleakClient" /\ linkUp = TRUE /\ subscribed = TRUE
    /\ v1_type = VALENTINE_ONE
    /\ can_send_event = TRUE
    /\ alert_buffer = << >>
    /\ pending_responses = EmptyMap
    /\ lockLocked = FALSE /\ lockWaiters = << >>
    /\ tpc = [t \in Tasks |-> "idle"]
    /\ tctx = [t \in Tasks |-> "none"]
    /\ sweeps = [t \in Tasks |-> NoSweeps]
    /\ wire = NoWrite
    /\ cbTasks = << >>
    /\ v1_data = V1DataDefault
    /\ app_running = TRUE
    /\ firmware_version = 0
    /\ v1_reconnect_request = FALSE
    /\ logRow = << >>
    /\ pc = "connected" /\ exc = "none" /\ cancelReq = "no"
    /\ hist = HistInit

NextClient ==
    \/ \E t \in Tasks : CallRequestVersion(t)
    \/ \E t \in Tasks : LockResume(t)
    \/ \E t \in Tasks : CallStartAlert(t)
    \/ \E t \in Tasks : GateResume(t)
    \/ \E t \in Tasks, ok \in BOOLEAN : WriteDone(t, ok)
    \/ \E t \in Tasks : RespReady(t)
    \/ \E t \in Tasks : Timeout(t)
    \/ \E t \in Tasks : CancelTask(t)
    \/ \E data \in ClientFrames : Notify(data)
    \/ RunCallback
    \/ LinkDrop

SpecClient == InitClient /\ [][NextClient]_vars

-----------------------------------------------------------------------------
(* The bulk collection beside a correlated request: on the connected client  *)
(* one task calls request_sweeps while another calls request_version, and    *)
(* either may be cancelled                                                   *)

\* respMaxSweepIndex reporting m as the largest sweep index
MaxIndexFrame(m) == DetectorFrame(VALENTINE_ONE, RESPMAXSWEEPINDEX, << m >>)

\* respSweepDefinition of the sweep i: committed, 33900-34106 MHz shifted by i
SweepPayload(i) ==
    << 64 + i, (34106 + i) \div 256, (34106 + i) % 256,
       (33900 + i) \div 256, (33900 + i) % 256 >>
SweepFrame(i) ==
    DetectorFrame(VALENTINE_ONE, RESPSWEEPDEFINITION, SweepPayload(i))

\* respSweepDefinition cut after its second payload byte
ShortSweepFrame ==
    DetectorFrame(VALENTINE_ONE, RESPSWEEPDEFINITION, << 64, 133 >>)

\* what the detector answers to reqMaxSweepIndex and reqAllSweepDefinitions
SweepFrames ==
    { MaxIndexFrame(m) : m \in 0..(MaxSweeps - 1) }
    \cup { SweepFrame(i) : i \in 0..(MaxSweeps - 1) }
    \cup { ShortSweepFrame }

NextSweeps ==
    \/ CallRequestSweeps("t1")
    \/ CallRequestVersion("t2")
    \/ \E t \in Tasks : LockResume(t)
    \/ \E t \in Tasks, ok \in BOOLEAN : WriteDone(t, ok)
    \/ RespReady("t2")
    \/ \E t \in Tasks : Timeout(t)
    \/ MaxIndexReady("t1")
    \/ \E ok \in BOOLEAN : CollectWriteDone("t1", ok)
    \/ CollectReady("t1")
    \/ CollectTimeout("t1")
    \/ \E t \in Tasks : CancelTask(t)
    \/ \E data \in SweepFrames \cup { VersionFrame } : Notify(data)
    \/ LinkDrop

SpecSweeps == InitClient /\ [][NextSweeps]_vars

\* the bulk collection alone: one task calls request_sweeps
NextCollect ==
    \/ CallRequestSweeps("t1")
    \/ \E ok \in BOOLEAN : WriteDone("t1", ok)
    \/ Timeout("t1")
    \/ MaxIndexReady("t1")
    \/ \E ok \in BOOLEAN : CollectWriteDone("t1", ok)
    \/ CollectReady("t1")
    \/ CollectTimeout("t1")
    \/ CancelTask("t1")
    \/ \E data \in SweepFrames : Notify(data)
    \/ LinkDrop

SpecCollect == InitClient /\ [][NextCollect]_vars

-----------------------------------------------------------------------------
(* The console tool: V1BleakClient and CommandLineInterface of               *)
(* esp/hello_v1_cli.py.  Its _send_request, _request_and_wait, notification  *)
(* handler and start_alert_data are, statement for statement, those of the   *)
(* controller's client, so the actions above model them too; its             *)
(* request_version and request_sweeps differ and are modelled here.          *)
(* CommandLineInterface.run awaits each command before it reads the next, so *)
(* one task drives the client.                                               *)

\* MIN_SWEEP_FW_VERSION = 3.8950, in 1/10000
MIN_SWEEP_FW_VERSION == 38950

\* bytes.decode('ascii') raises UnicodeDecodeError
DecodeRaises(payload) == \E i \in 1..Len(payload) : payload[i] > 127

\* str.strip('\x00')
RECURSIVE LStripNul(_)
LStripNul(s) == IF s # << >> /\ Head(s) = 0 THEN LStripNul(Tail(s)) ELSE s
RECURSIVE RStripNul(_)
RStripNul(s) ==
    IF s # << >> /\ s[Len(s)] = 0 THEN RStripNul(SubSeq(s, 1, Len(s) - 1))
    ELSE s

\* ResponseVersion.version, as the characters' codes
version(payload) == LStripNul(RStripNul(payload))

RECURSIVE DigitsValue(_)
DigitsValue(s) ==
    IF s = << >> THEN 0
    ELSE DigitsValue(SubSeq(s, 1, Len(s) - 1)) * 10 + (s[Len(s)] - 48)

\* float(s) in 1/10000, or -1 where it raises ValueError, for s of digits,
\* '.' and characters that no float literal holds; the strings of the model
\* have at most four decimals
ParseFloat(s) ==
    LET dots == { i \in 1..Len(s) : s[i] = 46 }
    IN  IF s = << >> \/ \E i \in 1..Len(s) : s[i] \notin (48..57) \cup {46}
        THEN -1
        ELSE IF Cardinality(dots) > 1 \/ Len(s) = Cardinality(dots) THEN -1
        ELSE IF dots = {} THEN DigitsValue(s) * 10000
        ELSE LET d == CHOOSE i \in dots : TRUE
                 frac == SubSeq(s, d + 1, Len(s)) \o << 48, 48, 48, 48 >>
             IN  DigitsValue(SubSeq(s, 1, d - 1)) * 10000
                 + DigitsValue(SubSeq(frac, 1, 4))

\* ResponseVersion.version_as_float: float(self.version[1:]), 0.0 on ValueError
version_as_float(payload) ==
    IF DecodeRaises(payload) THEN 0
    ELSE LET v == version(payload)
             f == ParseFloat(IF v = << >> THEN << >> ELSE Tail(v))
         IN  IF f < 0 THEN 0 ELSE f

\* request_version of the console client once the response is there (lines
\* 667-669): firmware_version is set, and response.version is returned or
\* its decode raises
CliVersionReady(t) ==
    /\ tpc[t] = "resp_wait" /\ tctx[t] = "request_version"
    /\ pending_responses[RESPVERSION].q # << >>
    /\ LET response == Head(pending_responses[RESPVERSION].q)
       IN  /\ firmware_version' = version_as_float(response.payload)
           /\ ExitExchange(t, IF DecodeRaises(response.payload)
                              THEN "UnicodeDecodeError" ELSE "response")
    /\ UNCHANGED << client, linkUp, subscribed, v1_type, can_send_event,
                    alert_buffer, sweeps, wire, cbTasks, v1_data, app_running,
                    v1_reconnect_request, logRow, pc, exc, cancelReq >>

\* the "sweeps" command: request_sweeps of the console client up to its first
\* await that suspends.  An unknown or old firmware returns None (lines
\* 674-680).  Else line 682 takes request_lock, which the one task of the
\* console finds free, and _request_and_wait (line 684) waits at line 644 for
\* the same lock: asyncio.Lock is not reentrant.  Nothing ever releases the
\* lock, so no run reaches line 646 from here and the model has no action
\* for lines 689-719.
CliRequestSweeps(t) ==
    /\ tpc[t] = "idle"
    /\ IF firmware_version = 0 \/ firmware_version < MIN_SWEEP_FW_VERSION
       THEN /\ hist' = Returned(hist, t, "None")
            /\ UNCHANGED << lockLocked, lockWaiters, tpc, tctx >>
       ELSE /\ LockFree(lockLocked, lockWaiters)
            /\ lockLocked' = TRUE
            /\ lockWaiters' = Append(lockWaiters, [t |-> t, woken |-> FALSE])
            /\ tpc' = [tpc EXCEPT ![t] = "lock_wait"]
            /\ tctx' = [tctx EXCEPT ![t] = "request_sweeps"]
            /\ hist' = HistStep(hist)
    /\ UNCHANGED << client, linkUp, subscribed, v1_type, can_send_event,
                    alert_buffer, pending_responses, sweeps, wire, cbTasks,
                    v1_data, app_running, firmware_version, v1_reconnect_request, logRow, pc, exc,
                    cancelReq >>

\* a display or alert callback of the console runs: it renders, or waits for
\* print_lock, which the command in progress holds; either way it leaves the
\* client as it is
CliRunCallback ==
    /\ cbTasks # << >>
    /\ cbTasks' = Tail(cbTasks)
    /\ hist' = [HistStep(hist) EXCEPT !.overtaken = Tail(@)]
    /\ UNCHANGED << client, linkUp, subscribed, v1_type, can_send_event,
                    alert_buffer, pending_responses, lockLocked, lockWaiters,
                    tpc, tctx, sweeps, wire, v1_data, app_running,
                    firmware_version, v1_reconnect_request, logRow, pc, exc, cancelReq >>

\* respVersion frames: "V3.8950", "V3.8920" and "V" followed by NULs
CliVersionFrames ==
    { DetectorFrame(VALENTINE_ONE, RESPVERSION, << 86, 51, 46, 56, 57, 53, 48 >>),
      DetectorFrame(VALENTINE_ONE, RESPVERSION, << 86, 51, 46, 56, 57, 50, 48 >>),
      DetectorFrame(VALENTINE_ONE, RESPVERSION, << 86, 0, 0, 0, 0, 0, 0 >>) }

CliFrames ==
    CliVersionFrames \cup { DisplayFrame(0, 0), DisplayFrame(0, 2) }

\* the task that runs CommandLineInterface.run
Cli == "t1"

NextCli ==
    \/ CallRequestVersion(Cli)
    \/ CliRequestSweeps(Cli)
    \/ CallStartAlert(Cli)
    \/ GateResume(Cli)
    \/ \E ok \in BOOLEAN : WriteDone(Cli, ok)
    \/ CliVersionReady(Cli)
    \/ Timeout(Cli)
    \/ \E data \in CliFrames : Notify(data)
    \/ CliRunCallback
    \/ LinkDrop

\* the event loop runs every task that is ready, and wait_for's timer fires
FairCli ==
    /\ WF_vars(GateResume(Cli))
    /\ WF_vars(\E ok \in BOOLEAN : WriteDone(Cli, ok))
    /\ WF_vars(CliVersionReady(Cli))
    /\ WF_vars(Timeout(Cli))
    /\ WF_vars(CliRunCallback)

SpecCli == InitClient /\ [][NextCli]_vars /\ FairCli

-----------------------------------------------------------------------------
(* The alert reassembler alone: the connected client receives alert rows *)

\* rows of every index below MaxCount and every declared count up to MaxCount;
\* row 0 is the priority row
AlertFrames ==
    { AlertFrame(i, c, 24150, i = 0) :
        i \in 0..(MaxCount - 1), c \in 0..MaxCount }

NextAlert ==
    \/ \E data \in AlertFrames : Notify(data)
    \/ RunCallback

SpecAlert == InitClient /\ [][NextAlert]_vars

-----------------------------------------------------------------------------
(* The receive path alone: the connected client receives frames of every     *)
(* kind while one task calls request_version                                 *)

\* frame with the byte at Python index pos replaced by val
Altered(frame, pos, val) ==
    [i \in 1..Len(frame) |-> IF i = pos + 1 THEN val ELSE frame[i]]

\* values written over a byte: 0x01 and the origin byte of a detector without
\* checksum (0xE9)
AlterValues == { 1, BitOr(ORIG_BASE, VALENTINE_ONE_NO_CHECKSUM) }

\* frames a detector with checksum sends
ValidChecksumFrames == { DisplayFrame(0, 0), DisplayFrame(0, 2), VersionFrame }

\* a valid frame with one byte other than SOF and EOF replaced
AlteredFrames ==
    { Altered(DisplayFrame(0, 2), pos, val) :
        pos \in 1..(Len(DisplayFrame(0, 2)) - 2), val \in AlterValues }
    \ { DisplayFrame(0, 2) }

\* buffers of fewer than six bytes that carry SOF and EOF
ShortFrames ==
    { << ESP_SOF, ESP_EOF >>,
      << ESP_SOF, BitOr(DEST_BASE, GENERAL_BROADCAST), ESP_EOF >>,
      << ESP_SOF, BitOr(DEST_BASE, GENERAL_BROADCAST),
         BitOr(ORIG_BASE, VALENTINE_ONE), ESP_EOF >>,
      << ESP_SOF, BitOr(DEST_BASE, GENERAL_BROADCAST),
         BitOr(ORIG_BASE, VALENTINE_ONE_NO_CHECKSUM), INFDISPLAYDATA, ESP_EOF >> }

\* buffers without SOF or without EOF
UnframedFrames ==
    { Tail(DisplayFrame(0, 2)),
      SubSeq(DisplayFrame(0, 2), 1, Len(DisplayFrame(0, 2)) - 1),
      << ESP_EOF >> }

\* a packet id byte that is no member of PacketId (reqTurnOffMainDisplay, 0x32)
\* in well-formed frames of both detector types
UnknownIdFrames ==
    { DetectorFrame(VALENTINE_ONE, 50, << >>),
      DetectorFrame(VALENTINE_ONE_NO_CHECKSUM, 50, << >>) }

\* frames of a detector without checksum and of another device on the bus
OtherOriginFrames ==
    { DetectorFrame(VALENTINE_ONE_NO_CHECKSUM, INFDISPLAYDATA, DisplayPayload(0, 0)),
      DetectorFrame(VALENTINE_ONE_NO_CHECKSUM, INFDISPLAYDATA, DisplayPayload(0, 2)),
      DetectorFrame(CONCEALED_DISPLAY, INFDISPLAYDATA, DisplayPayload(0, 2)) }

CodecFrames ==
    ValidChecksumFrames \cup AlteredFrames \cup ShortFrames
    \cup UnframedFrames \cup UnknownIdFrames \cup OtherOriginFrames
    \cup { Corrupt(DisplayFrame(0, 0)), Corrupt(VersionFrame),
           AlertFrame(0, 2, 24150, TRUE), Corrupt(AlertFrame(1, 2, 24150, FALSE)) }

NextCodec ==
    \/ CallRequestVersion("t1")
    \/ GateResume("t1")
    \/ \E ok \in BOOLEAN : WriteDone("t1", ok)
    \/ RespReady("t1")
    \/ Timeout("t1")
    \/ \E data \in CodecFrames : Notify(data)
    \/ RunCallback

SpecCodec == InitClient /\ [][NextCodec]_vars

-----------------------------------------------------------------------------
(* The state sink alone: threads call the V1 methods of one AppState with    *)
(* every parameter bound; each method runs under AppState._lock, so a call   *)
(* is one step                                                               *)

\* arguments the callers pass
ModeArgs == { "All Bogeys", "Adv. Logic", "Logic" }
AlertArgs ==
    { [in_alert |-> TRUE, band |-> "K", freq |-> 24150, front_str |-> 5,
       rear_str |-> 0],
      [in_alert |-> TRUE, band |-> "Ka", freq |-> 34700, front_str |-> 2,
       rear_str |-> 2],
      [in_alert |-> FALSE, band |-> "N/A", freq |-> 0, front_str |-> 0,
       rear_str |-> 0] }
ConnectionArgs ==
    { [is_connected |-> TRUE, status |-> "Connected"],
      [is_connected |-> FALSE, status |-> "Disconnected"] }
LaserArgs == { [direction |-> "F", strength |-> 8] }
DisplayInfoArgs == { [strength |-> 0], [strength |-> 4] }

\* self.state.<method>(**args) from any thread
CallAppState(method, args) ==
    /\ CallRaises(method, args) = "none"
    /\ v1_data' = CallState(v1_data, method, args)
    /\ hist' = [HistStep(hist) EXCEPT
                  !.call = [method |-> method,
                            mode |-> IF method = "update_v1_mode"
                                     THEN args.mode ELSE "none"],
                  !.held = IF logRow = << >> THEN {}
                           ELSE @ \cup { CallState(v1_data, method, args) }]
    /\ UNCHANGED << client, linkUp, subscribed, v1_type, can_send_event,
                    alert_buffer, pending_responses, lockLocked, lockWaiters,
                    tpc, tctx, sweeps, wire, cbTasks, app_running, firmware_version, v1_reconnect_request, logRow, pc, exc,
                    cancelReq >>

NextState ==
    \/ \E m \in ModeArgs : CallAppState("update_v1_mode", [mode |-> m])
    \/ \E a \in AlertArgs : CallAppState("update_v1_alert_data", a)
    \/ \E a \in ConnectionArgs : CallAppState("set_v1_connection_status", a)
    \/ \E a \in LaserArgs : CallAppState("set_v1_laser_alert", a)
    \/ \E a \in DisplayInfoArgs : CallAppState("update_v1_display_info", a)

\* AppState() as constructed, the engine not started
SpecState == Init /\ [][NextState]_vars

-----------------------------------------------------------------------------
(* The state sink beside a reader: the data logging thread of the recorder   *)
(* (Recorder._log_data_segment) builds its row while other threads call the  *)
(* V1 methods.  get_v1_data returns, under the lock, the one V1Data object   *)
(* the methods update in place; the fields are read after the lock is        *)
(* released, one attribute load each, and a thread switch can fall between   *)
(* any two of them.                                                          *)

\* the v1 fields of a row in the order writer.writerow's list evaluates them
LoggedFields(d) ==
    << d.in_alert, d.priority_alert_freq, d.priority_alert_band,
       d.priority_alert_direction, d.priority_alert_strength >>

\* the next attribute of the object get_v1_data returned is loaded (the first
\* load follows get_v1_data at line 241)
ReadField ==
    /\ Len(logRow) < Len(LoggedFields(v1_data))
    /\ logRow' = Append(logRow, LoggedFields(v1_data)[Len(logRow) + 1])
    /\ hist' = [HistStep(hist) EXCEPT
                  !.held = IF logRow = << >> THEN { v1_data } ELSE @]
    /\ UNCHANGED << client, linkUp, subscribed, v1_type, can_send_event,
                    alert_buffer, pending_responses, lockLocked, lockWaiters,
                    tpc, tctx, sweeps, wire, cbTasks, v1_data, app_running,
                    firmware_version, v1_reconnect_request, pc, exc,
                    cancelReq >>

\* the row is written and, after the sleep, the loop starts the next one
RowWritten ==
    /\ Len(logRow) = Len(LoggedFields(v1_data))
    /\ logRow' = << >>
    /\ hist' = [HistStep(hist) EXCEPT !.held = {}]
    /\ UNCHANGED << client, linkUp, subscribed, v1_type, can_send_event,
                    alert_buffer, pending_responses, lockLocked, lockWaiters,
                    tpc, tctx, sweeps, wire, cbTasks, v1_data, app_running,
                    firmware_version, v1_reconnect_request, pc, exc,
                    cancelReq >>

\* the updates that run beside the reader: a K alert, its clearing, a
\* disconnect and a strength of four lights
LogAlertArgs == { a \in AlertArgs : a.band # "Ka" }
LogConnectionArgs == { a \in ConnectionArgs : ~a.is_connected }
LogDisplayInfoArgs == { a \in DisplayInfoArgs : a.strength > 0 }

NextLog ==
    \/ \E a \in LogAlertArgs : CallAppState("update_v1_alert_data", a)
    \/ \E a \in LogConnectionArgs :
           CallAppState("set_v1_connection_status", a)
    \/ \E a \in LogDisplayInfoArgs :
           CallAppState("update_v1_display_info", a)
    \/ ReadField
    \/ RowWritten

SpecLog == Init /\ [][NextLog]_vars

-----------------------------------------------------------------------------
(* Band classification alone: _handle_alerts classifies the priority row of  *)
(* a table by the frequency AlertData read from the row's payload            *)

\* respAlertData payload of one row with its band and arrow byte (index 5):
\* bit 0 of that byte is the laser band flag
BandPayload(freq, laser) ==
    << 1, freq \div 256, freq % 256, 5, 0, IF laser THEN 1 ELSE 0, 128 >>

\* the edges of the three bands and their neighbours, frequencies inside and
\* between the bands, 0 and the ends of the 16-bit range
BandFreqs ==
    { 0, 1, 5000, 10499, 10500, 10501, 10525, 10549, 10550, 10551, 20000,
      24049, 24050, 24051, 24150, 24249, 24250, 24251, 30000, 33399, 33400,
      33401, 34700, 35999, 36000, 36001, 65535 }

\* line 351 on the row AlertData builds from the payload
ClassifyRow ==
    /\ hist.band.result = "none"
    /\ hist' = [HistStep(hist) EXCEPT
                  !.band.result =
                      get_band_from_freq(
                          AlertData(BandPayload(hist.band.freq,
                                                hist.band.laser)).frequency)]
    /\ UNCHANGED << client, linkUp, subscribed, v1_type, can_send_event,
                    alert_buffer, pending_responses, lockLocked, lockWaiters,
                    tpc, tctx, sweeps, wire, cbTasks, v1_data, app_running, firmware_version, v1_reconnect_request, logRow, pc,
                    exc, cancelReq >>

InitBand ==
    /\ client = "BleakClient" /\ linkUp = TRUE /\ subscribed = TRUE
    /\ v1_type = VALENTINE_ONE
    /\ can_send_event = TRUE
    /\ alert_buffer = << >>
    /\ pending_responses = EmptyMap
    /\ lockLocked = FALSE /\ lockWaiters = << >>
    /\ tpc = [t \in Tasks |-> "idle"]
    /\ tctx = [t \in Tasks |-> "none"]
    /\ sweeps = [t \in Tasks |-> NoSweeps]
    /\ wire = NoWrite
    /\ cbTasks = << >>
    /\ v1_data = V1DataDefault
    /\ app_running = TRUE
    /\ firmware_version = 0
    /\ v1_reconnect_request = FALSE
    /\ logRow = << >>
    /\ pc = "connected" /\ exc = "none" /\ cancelReq = "no"
    /\ \E f \in BandFreqs, l \in BOOLEAN :
           hist = [HistInit EXCEPT !.band.freq = f, !.band.laser = l]

NextBand == ClassifyRow

SpecBand == InitBand /\ [][NextBand]_vars

-----------------------------------------------------------------------------
(* The request codec alone: _send_request builds a frame for a request and   *)
(* ESPPacket reads the frame back, for both detector types                   *)

RequestIds ==
    { REQVERSION, REQALLSWEEPDEFINITIONS, REQMAXSWEEPINDEX, REQSTARTALERTDATA,
      REQSTOPALERTDATA }

\* payload bytes: zero, the framing bytes, the largest byte
PayloadBytes == { 0, ESP_SOF, ESP_EOF, 255 }

Payloads == UNION { [1..n -> PayloadBytes] : n \in 0..MaxLen }

\* _send_request(pid, dest, payload) with the gate open writes its frame;
\* ESPPacket(frame, v1_type) decodes what was written.  The caller sends one
\* request: the frame depends on nothing an earlier request left behind.
SendRequest(pid, dest, payload) ==
    /\ Connected /\ can_send_event
    /\ wire = NoWrite
    /\ \E frame \in { EncodeRequest(pid, dest, payload, v1_type) } :
           /\ wire' = [by |-> "t1", gate |-> can_send_event, frame |-> frame]
           /\ hist' = [HistStep(hist) EXCEPT
                         !.req = [pid |-> pid, dest |-> dest, payload |-> payload],
                         !.packet = ESPPacketInit(frame, v1_type, "ESPPacket")]
    /\ UNCHANGED << client, linkUp, subscribed, v1_type, can_send_event,
                    alert_buffer, pending_responses, lockLocked, lockWaiters,
                    tpc, tctx, sweeps, cbTasks, v1_data, app_running, firmware_version, v1_reconnect_request, logRow, pc, exc,
                    cancelReq >>

\* the connected client with either detector type detected
InitRoundTrip ==
    /\ client = "BleakClient" /\ linkUp = TRUE /\ subscribed = TRUE
    /\ v1_type \in { VALENTINE_ONE, VALENTINE_ONE_NO_CHECKSUM }
    /\ can_send_event = TRUE
    /\ alert_buffer = << >>
    /\ pending_responses = EmptyMap
    /\ lockLocked = FALSE /\ lockWaiters = << >>
    /\ tpc = [t \in Tasks |-> "idle"]
    /\ tctx = [t \in Tasks |-> "none"]
    /\ sweeps = [t \in Tasks |-> NoSweeps]
    /\ wire = NoWrite
    /\ cbTasks = << >>
    /\ v1_data = V1DataDefault
    /\ app_running = TRUE
    /\ firmware_version = 0
    /\ v1_reconnect_request = FALSE
    /\ logRow = << >>
    /\ pc = "connected" /\ exc = "none" /\ cancelReq = "no"
    /\ hist = HistInit

NextRoundTrip ==
    \E pid \in RequestIds, dest \in DeviceId, payload \in Payloads :
        SendRequest(pid, dest, payload)

SpecRoundTrip == InitRoundTrip /\ [][NextRoundTrip]_vars

-----------------------------------------------------------------------------
(* One generation of alert rows fed in any order: the connected client, with *)
(* an empty buffer, receives each of the rows 0..n-1 of a table of n rows    *)
(* once                                                                      *)

\* frequencies of the generation's rows: X, K, Ka, laser, the Ka band's upper
\* edge and one outside every band
GenerationFreqs == { 10525, 24150, 34700, 0, 36000, 5000 }

\* the frame of row i of the generation g (row 0 is the priority row)
GenerationFrame(g, i) == AlertFrame(i, g.n, g.freq, i = 0)

\* a row of the generation not fed yet arrives
FeedRow(i) ==
    /\ hist.gen.n > 0
    /\ i \in (0..(hist.gen.n - 1)) \ hist.gen.fed
    /\ \E r \in { notification_handler(GenerationFrame(hist.gen, i), v1_type,
                                        can_send_event, alert_buffer,
                                        pending_responses) } :
           NotifyFrom(GenerationFrame(hist.gen, i),
                      [hist EXCEPT
                         !.gen.fed = @ \cup {i},
                         !.gen.npub = IF r.cb.kind = "alert" THEN @ + 1 ELSE @,
                         !.gen.table = IF r.cb.kind = "alert"
                                       THEN r.cb.table ELSE @])

InitOrder ==
    /\ client = "BleakClient" /\ linkUp = TRUE /\ subscribed = TRUE
    /\ v1_type = VALENTINE_ONE
    /\ can_send_event = TRUE
    /\ alert_buffer = << >>
    /\ pending_responses = EmptyMap
    /\ lockLocked = FALSE /\ lockWaiters = << >>
    /\ tpc = [t \in Tasks |-> "idle"]
    /\ tctx = [t \in Tasks |-> "none"]
    /\ sweeps = [t \in Tasks |-> NoSweeps]
    /\ wire = NoWrite
    /\ cbTasks = << >>
    /\ v1_data = V1DataDefault
    /\ app_running = TRUE
    /\ firmware_version = 0
    /\ v1_reconnect_request = FALSE
    /\ logRow = << >>
    /\ pc = "connected" /\ exc = "none" /\ cancelReq = "no"
    /\ \E n \in 1..MaxCount, f \in GenerationFreqs :
           hist = [HistInit EXCEPT !.gen.n = n, !.gen.freq = f]

NextOrder ==
    \/ \E i \in 0..(MaxCount - 1) : FeedRow(i)
    \/ RunCallback

SpecOrder == InitOrder /\ [][NextOrder]_vars

-----------------------------------------------------------------------------
(* Successive generations: the detector broadcasts its alert table again and *)
(* again; any row of the generation on air may be lost, arrive in any order  *)
(* or arrive twice.  The rows of a generation carry the generation's         *)
(* frequency, and every generation declares the same count.                  *)

\* the frequencies of the generations, in the order they are broadcast
GenerationSeq == << 24150, 34700, 10525 >>

\* row i of the generation on air arrives
BroadcastRow(i) ==
    /\ i \in 0..(hist.gen.n - 1)
    /\ NotifyFrom(GenerationFrame(hist.gen, i), hist)

\* the detector goes on to its next generation
NewGeneration ==
    /\ \E k \in 1..(Len(GenerationSeq) - 1) :
           /\ hist.gen.freq = GenerationSeq[k]
           /\ hist' = [HistStep(hist) EXCEPT !.gen.freq = GenerationSeq[k + 1]]
    /\ UNCHANGED << client, linkUp, subscribed, v1_type, can_send_event,
                    alert_buffer, pending_responses, lockLocked, lockWaiters,
                    tpc, tctx, sweeps, wire, cbTasks, v1_data, app_running,
                    firmware_version, v1_reconnect_request, logRow, pc, exc,
                    cancelReq >>

\* the connected client with an empty buffer; the first generation is on air
InitGenerations ==
    /\ client = "BleakClient" /\ linkUp = TRUE /\ subscribed = TRUE
    /\ v1_type = VALENTINE_ONE
    /\ can_send_event = TRUE
    /\ alert_buffer = << >>
    /\ pending_responses = EmptyMap
    /\ lockLocked = FALSE /\ lockWaiters = << >>
    /\ tpc = [t \in Tasks |-> "idle"]
    /\ tctx = [t \in Tasks |-> "none"]
    /\ sweeps = [t \in Tasks |-> NoSweeps]
    /\ wire = NoWrite
    /\ cbTasks = << >>
    /\ v1_data = V1DataDefault
    /\ app_running = TRUE
    /\ firmware_version = 0
    /\ v1_reconnect_request = FALSE
    /\ logRow = << >>
    /\ pc = "connected" /\ exc = "none" /\ cancelReq = "no"
    /\ \E n \in 2..MaxCount :
           hist = [HistInit EXCEPT !.gen.n = n, !.gen.freq = GenerationSeq[1]]

NextGenerations ==
    \/ \E i \in 0..(MaxCount - 1) : BroadcastRow(i)
    \/ NewGeneration
    \/ RunCallback

SpecGenerations == InitGenerations /\ [][NextGenerations]_vars

-----------------------------------------------------------------------------
(* Properties *)

\* task t is inside the exchange of _request_and_wait: its slot is registered
\* and it has not yet run the finally
InExchange(t) ==
    /\ tctx[t] \in Correlated
    /\ tpc[t] \in {"gate_wait", "gate_woken", "writing", "resp_wait"}

\* C1: two concurrent _request_and_wait calls never interleave: at most one
\* call is between registering its response slot and returning (the part of
\* the call that writes to the transport), it holds the lock, and a response
\* slot exists only while a call is there
C1_SingleFlight ==
    /\ \A t1 \in DOMAIN tpc : \A t2 \in DOMAIN tpc :
           InExchange(t1) /\ InExchange(t2) => t1 = t2
    /\ \A t \in DOMAIN tpc : InExchange(t) => lockLocked
    /\ DOMAIN pending_responses # {} => \E t \in DOMAIN tpc : InExchange(t)

\* a second call waits for the lock while the first waits for its response
C1_Witness ==
    \E t1 \in DOMAIN tpc : \E t2 \in DOMAIN tpc :
        /\ InExchange(t1) /\ tpc[t1] = "resp_wait"
        /\ tctx[t2] = "request_version" /\ tpc[t2] = "lock_wait"

\* C2: no request frame is written to the transport while the flow gate is
\* closed: the frame last written was written with can_send_event set
C2_NoWriteWhileGateClosed == wire.gate

\* C3: every non-empty table passed to the alert callback has as many rows as
\* each of its rows declares, in strictly ascending index order, and the
\* buffer is empty right after a table was passed
C3_NoPartialTable ==
    /\ \A i \in 1..Len(cbTasks) :
           LET tb == cbTasks[i].table
           IN  cbTasks[i].kind = "alert" /\ tb # << >> =>
                   /\ \A k \in 1..Len(tb) : tb[k].count = Len(tb)
                   /\ \A k \in 1..(Len(tb) - 1) : tb[k].index < tb[k + 1].index
    /\ hist.pub => alert_buffer = << >>

\* a table of at least two rows was passed to the alert callback
C3_Witness ==
    /\ hist.pub
    /\ \E i \in 1..Len(cbTasks) :
           cbTasks[i].kind = "alert" /\ Len(cbTasks[i].table) >= 2

\* C4: while the published connection state is not Connected, the detector
\* fields of the published state hold their defaults
C4_DefaultsWhileNotConnected ==
    v1_data.connection_status # "Connected" =>
        /\ v1_data.priority_alert_band = "N/A"
        /\ v1_data.priority_alert_freq = 0
        /\ v1_data.v1_mode = "Standby"
        /\ v1_data.in_alert = FALSE

\* C5: unless shutdown has been signaled the session task goes back to
\* scanning, so it has not ended
C5_NeverEndsWithoutShutdown == pc = "finished" => ~app_running

\* C6: once shutdown() has been signaled to the running task, the task ends
\* with the BLE link closed
C6_EndsDisconnected ==
    pc = "finished" /\ cancelReq \in {"queued", "delivered"} => ~linkUp

\* C7: when the session task has ended, the published connection state is
\* Disconnected and the detector fields hold their defaults
C7_ExitPublishesDisconnected ==
    pc = "finished" => v1_data = V1DataDefault

\* C8: whenever the engine holds no connection the flow gate is open
C8_GateOpenWhenNotConnected ==
    client = "None" => can_send_event

\* C9: the flow gate is closed exactly when the latest well-formed display
\* frame had the holdoff bit set (open when there was none), and only the
\* handling of a well-formed display frame changes it
C9_GateTracksDisplay ==
    /\ [](can_send_event = (hist.lastDisp = -1 \/ (hist.lastDisp \div 2) % 2 = 0))
    /\ [][can_send_event' # can_send_event =>
              WellFormedDisplay(hist'.lastIn, v1_type)]_vars

\* the gate is closed after a holdoff frame and frames of other kinds
C9_Witness ==
    /\ ~can_send_event
    /\ hist.lastIn # << >> /\ ~WellFormedDisplay(hist.lastIn, v1_type)

\* C10: after a successful connect the start-alert-data request is sent: a
\* task that ended after connecting, with no shutdown, has written it
C10_AlertStreamEnabled ==
    pc = "finished" /\ hist.connectOk /\ app_running =>
        wire.frame # << >> /\ wire.frame[4] = REQSTARTALERTDATA

\* C11: a transport failure (connect, start_notify, link drop) never ends the
\* session task: while the application runs and no shutdown was signaled, a
\* run in which the transport has failed has not ended
C11_TransportFailureContained ==
    hist.failed /\ app_running /\ cancelReq = "no" => pc # "finished"

\* the engine state a dropped frame must leave alone
EngineState ==
    << v1_type, can_send_event, alert_buffer, pending_responses, v1_data,
       cbTasks >>

\* the framing preconditions of a notification buffer do not hold
BadFraming(data) ==
    Len(data) < 6 \/ data[1] # ESP_SOF \/ data[Len(data)] # ESP_EOF

\* C12: a notification buffer shorter than 6 bytes, or without SOF, or
\* without EOF is dropped silently: the handler raises nothing and the engine
\* state is unchanged
C12_MalformedDroppedSilently ==
    [][hist'.lastIn # << >> /\ BadFraming(hist'.lastIn) =>
           hist'.raised = "none" /\ UNCHANGED EngineState]_vars

\* C13: a well-formed frame whose packet id is no PacketId value is classified
\* as a generic packet: it is decoded as a plain ESPPacket, not dropped and
\* nothing is raised
C13_UnknownIdIsGeneric ==
    hist.lastIn \in UnknownIdFrames =>
        /\ hist.packet.cls = "ESPPacket"
        /\ hist.dropped = "none" /\ hist.raised = "none"

\* a framed buffer from the detector with checksum whose checksum byte is not
\* the sum of the bytes before it
FailsChecksum(data) ==
    /\ ~BadFraming(data)
    /\ data[3] % 16 = VALENTINE_ONE
    /\ data[Len(data) - 1] # SumBytes(SubSeq(data, 1, Len(data) - 2)) % 256

\* C14: a frame that fails checksum validation is dropped without any effect:
\* nothing is raised, no callback is scheduled and the engine state (detected
\* type, gate, alert buffer, pending slots, published state) is unchanged
C14_BadChecksumNoEffect ==
    [][hist'.lastIn # << >> /\ FailsChecksum(hist'.lastIn) =>
           hist'.raised = "none" /\ UNCHANGED EngineState]_vars

\* C15: a valid frame with checksum in which one byte other than SOF and EOF
\* was replaced is rejected as a checksum mismatch and never decoded
C15_SingleByteChangeRejected ==
    hist.lastIn \in AlteredFrames =>
        hist.dropped = "checksum" /\ hist.packet = NoPacket

\* C16: checksum validation and the payload-length adjustment are applied to
\* a received frame exactly when its own origin is VALENTINE_ONE: a frame
\* dropped for its checksum has that origin, and a decoded payload has the
\* declared length, less one exactly for that origin
C16_ChecksumByOwnOrigin ==
    LET d == hist.lastIn
    IN  d # << >> /\ ~BadFraming(d) =>
            LET own == (d[3] % 16 = VALENTINE_ONE)
                declared == d[5]
                want == IF own /\ declared > 0 THEN declared - 1 ELSE declared
            IN  /\ hist.dropped = "checksum" => own
                /\ hist.packet.cls # "None" =>
                       hist.packet.payload = Slice(d, 5, 5 + want)

\* C17: round trip: the frame _send_request builds for a request id, a
\* destination and a payload decodes through ESPPacket to the same packet id
\* and the same payload bytes, with and without checksum
C17_RequestRoundTrip ==
    hist.req # NoRequest =>
        /\ hist.packet.cls = "ESPPacket"
        /\ hist.packet.packet_id = hist.req.pid
        /\ hist.packet.payload = hist.req.payload

\* a frame with checksum and a payload of MaxLen bytes went round
C17_Witness ==
    /\ v1_type = VALENTINE_ONE
    /\ Len(hist.req.payload) = MaxLen
    /\ hist.packet.payload = hist.req.payload
    /\ wire.frame[Len(wire.frame)] = ESP_EOF

\* the table of a generation of n rows: rows 0..n-1 in index order
GenerationTable(g) ==
    [k \in 1..g.n |-> AlertData(AlertPayload(k - 1, g.n, g.freq, k = 1))]

\* C18: reassembly is order-independent: of the rows 0..n-1 with declared
\* count n, fed in any order into an empty buffer, no table is published
\* before the n-th row, exactly one is published on it, and it is the
\* index-sorted table whatever the order
C18_OrderIndependent ==
    hist.gen.n > 0 =>
        /\ hist.gen.npub =
               (IF Cardinality(hist.gen.fed) = hist.gen.n THEN 1 ELSE 0)
        /\ hist.gen.npub = 1 =>
               /\ hist.gen.table = GenerationTable(hist.gen)
               /\ alert_buffer = << >>

\* a generation of MaxCount rows was completed by its row 0, fed last
C18_Witness ==
    /\ hist.gen.n = MaxCount /\ hist.gen.npub = 1
    /\ hist.lastIn = GenerationFrame(hist.gen, 0)
    /\ hist.gen.table = GenerationTable(hist.gen)

\* the alert row a frame of the detector with checksum carries
RowOf(data) == AlertData(SubSeq(data, 6, Len(data) - 2))

\* C19: a row whose declared count (not 0) differs from that of the rows
\* buffered makes the buffer be discarded before the row is inserted: after
\* the step the buffer holds the new row only, or is empty because the row
\* alone was published as a table of one row; so the buffered rows always
\* declare one count and no stale row reaches a later table
C19_StaleBufferDiscarded ==
    /\ [](\A j \in 1..Len(alert_buffer) :
             alert_buffer[j].count = alert_buffer[1].count)
    /\ [][(/\ hist'.lastIn # << >>
            /\ RowOf(hist'.lastIn).count # 0
            /\ \E j \in 1..Len(alert_buffer) :
                   alert_buffer[j].count # RowOf(hist'.lastIn).count)
           => \/ alert_buffer' = << RowOf(hist'.lastIn) >>
              \/ /\ RowOf(hist'.lastIn).count = 1
                 /\ alert_buffer' = << >>
                 /\ cbTasks' = Append(cbTasks,
                                      AlertCallback(<< RowOf(hist'.lastIn) >>))
          ]_vars

\* a row of another count arrived while two rows were buffered, and it is
\* now alone in the buffer
C19_Witness ==
    /\ hist.lastIn # << >>
    /\ hist.before.len = 2
    /\ hist.before.count # RowOf(hist.lastIn).count
    /\ alert_buffer = << RowOf(hist.lastIn) >>

\* C20: a row with count 0 always publishes an empty table and leaves the
\* buffer empty, whatever the buffer held and whatever index the row carries
C20_CountZeroClears ==
    [][hist'.lastIn # << >> /\ RowOf(hist'.lastIn).count = 0
           => /\ alert_buffer' = << >>
              /\ cbTasks' = Append(cbTasks, AlertCallback(<< >>))
      ]_vars

\* a row with count 0 and an index other than 0 arrived while rows were
\* buffered: the buffer is empty and an empty table was published
C20_Witness ==
    /\ hist.lastIn # << >>
    /\ RowOf(hist.lastIn).count = 0 /\ RowOf(hist.lastIn).index > 0
    /\ hist.before.len > 0
    /\ alert_buffer = << >> /\ hist.pub

\* task t is in the bulk collection of request_sweeps: the slot of line 297
\* is registered and the finally of line 313 has not run
InCollection(t) == tctx[t] = "collect_sweeps"

\* C21: at most one correlated exchange is in flight, bulk collections
\* included: while a task is in the bulk collection of request_sweeps no
\* other task is inside _request_and_wait (slot registered, request written),
\* and at most one response slot exists at any moment
C21_OneExchangeInFlight ==
    /\ Cardinality(DOMAIN pending_responses) <= 1
    /\ \A t1 \in DOMAIN tpc : \A t2 \in DOMAIN tpc :
           InCollection(t1) /\ t2 # t1 => ~InExchange(t2)

\* task t leaves _request_and_wait in the step: it was inside the exchange
\* and is no longer in the call
LeavesExchange(t) == InExchange(t) /\ tctx'[t] \notin Correlated

\* C22: when _request_and_wait exits by any path (response, timeout, send
\* failure, cancellation) the slot of its respId is no longer registered and
\* the request lock is free; a call that ends while it waits for its response
\* ends with the response, with None (timeout) or cancelled, never with
\* another error
C22_ExitLeavesNothing ==
    [][\A t \in DOMAIN tpc :
           LeavesExchange(t) =>
               /\ RespOf(tctx[t]) \notin DOMAIN pending_responses'
               /\ ~lockLocked'
               /\ (tpc[t] = "resp_wait" /\ tctx'[t] = "none" =>
                       hist'.ret \in {"response", "None", "CancelledError"})
               /\ ((/\ tpc[t] = "resp_wait" /\ tctx'[t] = "none"
                    /\ pending_responses[RespOf(tctx[t])].q = << >>
                    /\ hist'.ret # "CancelledError") => hist'.ret = "None")
      ]_vars

\* a call was cancelled while it waited for its response and another call
\* waited for the lock: the slot is gone, the lock is free and the waiter
\* has been woken
C22_Witness ==
    /\ hist.ret = "CancelledError"
    /\ ~lockLocked /\ DOMAIN pending_responses = {}
    /\ \E i \in 1..Len(lockWaiters) :
           lockWaiters[i].woken /\ lockWaiters[i].t # hist.retBy

\* the sweep definitions that have arrived for the collection of task t: those
\* collected and those waiting in the queue
QueuedSweeps ==
    IF RESPSWEEPDEFINITION \in DOMAIN pending_responses
    THEN pending_responses[RESPSWEEPDEFINITION].q ELSE << >>
ArrivedSweeps(t) ==
    { sweeps[t].got[i] : i \in 1..Len(sweeps[t].got) }
    \cup { SweepDefinition(QueuedSweeps[j].payload) :
             j \in { k \in 1..Len(QueuedSweeps) :
                        /\ QueuedSweeps[k].cls = "ResponseSweepDefinition"
                        /\ SweepDefinitionRaises(QueuedSweeps[k].payload) = "none" } }
ArrivedIndexes(t) == { d.index : d \in ArrivedSweeps(t) }

\* a frame that is no readable sweep definition waits in the queue
UnreadableQueued ==
    \E j \in 1..Len(QueuedSweeps) :
        SweepDefinitionRaises(QueuedSweeps[j].payload) # "none"

C24_ArrivalOrder ==
    [][hist'.late => v1_data' = v1_data]_vars

\* the step runs the alert callback task at the head of cbTasks
RunsAlertCallback ==
    /\ cbTasks # << >> /\ Head(cbTasks).kind = "alert"
    /\ cbTasks' = Tail(cbTasks) /\ hist'.lastIn = << >>
    /\ pc' = pc

\* C25: when a completed alert table is published, the published alert is
\* the row flagged is_priority (in-alert true, that row's band, its frequency;
\* the model keeps GHz in thousandths), and with an empty table or no
\* priority row the published state is "no alert" (in-alert false, band N/A,
\* frequency 0)
C25_PriorityRowPublished ==
    [][RunsAlertCallback =>
           LET tb == Head(cbTasks).table
               prio == { i \in 1..Len(tb) : tb[i].is_priority }
           IN  IF prio # {}
               THEN /\ v1_data'.in_alert
                    /\ \E i \in prio :
                           /\ v1_data'.priority_alert_freq = tb[i].frequency
                           /\ v1_data'.priority_alert_band \in {"X", "K", "Ka"}
               ELSE /\ ~v1_data'.in_alert
                    /\ v1_data'.priority_alert_band = "N/A"
                    /\ v1_data'.priority_alert_freq = 0
      ]_vars

\* C26: a mode update is applied only when no alert is active: a call of
\* update_v1_mode while in_alert is true changes neither the published mode
\* nor any alert field, whatever calls came before it, and with no alert
\* active it changes the mode alone
C26_ModeOnlyWithoutAlert ==
    [][hist'.call.method = "update_v1_mode" =>
           IF v1_data.in_alert
           THEN v1_data' = v1_data
           ELSE v1_data' = [v1_data EXCEPT !.v1_mode = hist'.call.mode]
      ]_vars

\* update_v1_mode was called during an alert with a mode other than the
\* published one, which still stands
C26_Witness ==
    /\ hist.call.method = "update_v1_mode"
    /\ v1_data.in_alert
    /\ hist.call.mode # v1_data.v1_mode
    /\ v1_data.v1_mode # "Standby"

\* the step runs the display callback task at the head of cbTasks
RunsDisplayCallback ==
    /\ cbTasks # << >> /\ Head(cbTasks).kind = "display"
    /\ cbTasks' = Tail(cbTasks) /\ hist'.lastIn = << >>
    /\ pc' = pc

\* C27: when an accepted display frame reports an active laser alert, the
\* engine publishes in-alert true with band Laser and frequency 0
C27_LaserPublished ==
    [][RunsDisplayCallback /\ is_laser(Head(cbTasks).payload) =>
           /\ v1_data'.in_alert
           /\ v1_data'.priority_alert_band = "Laser"
           /\ v1_data'.priority_alert_freq = 0
      ]_vars

\* the band the classification rule gives a frequency in MHz and a laser
\* band flag
ClaimedBand(freq, laser) ==
    CASE freq \in 10500..10550 -> "X"
      [] freq \in 24050..24250 -> "K"
      [] freq \in 33400..36000 -> "Ka"
      [] freq = 0 /\ laser -> "Laser"
      [] OTHER -> "Unknown"

\* C28: band classification of a frequency in MHz: 10500..10550 is X,
\* 24050..24250 is K, 33400..36000 is Ka (edges included), frequency 0
\* together with a laser band flag is Laser, anything else is Unknown
C28_BandClassification ==
    hist.band.result # "none" =>
        hist.band.result = ClaimedBand(hist.band.freq, hist.band.laser)

\* C29: shutdown() can be called from another thread at any point of the
\* controller's life (before run() has made the loop, while the loop runs,
\* after the task has finished and the loop is closed) without raising
C29_ShutdownNeverRaises == cancelReq # "RuntimeError"

\* a notification buffer of at least 6 bytes that starts with SOF and ends
\* with EOF
WellFramed(data) == ~BadFraming(data)

\* C30: for every well-framed notification buffer, whatever its address
\* nibbles, packet id, declared payload length and actual payload size, the
\* notification handler completes without raising
C30_WellFramedNeverRaises ==
    hist.lastIn # << >> /\ WellFramed(hist.lastIn) => hist.raised = "none"

\* C31: Connected is published exactly when connect and the notification
\* subscription have both succeeded: the step in which connect() returns True
\* publishes it (before any request of the self-test is written), and no
\* other step does
C31_ConnectedOnSuccess ==
    [][/\ (~hist.connectOk /\ hist'.connectOk) => v1_data'.is_connected
       /\ (~v1_data.is_connected /\ v1_data'.is_connected) =>
              hist'.connectOk /\ ~hist.connectOk /\ wire' = NoWrite]_vars

\* C32: in the console tool a call of request_sweeps on a supported firmware
\* always ends: whenever such a call is in progress it later returns (the
\* sorted definitions or None) and is no longer in progress
C32_CliSweepsTerminates ==
    (tctx[Cli] = "request_sweeps") ~> (tctx[Cli] # "request_sweeps")

\* C33: a manual reconnect request raised through the web action is
\* eventually consumed by the session manager: whenever the request flag is
\* set while the application runs, it is later cleared (or the application
\* is shut down)
C33_ReconnectConsumed ==
    (v1_reconnect_request /\ app_running)
        ~> (~v1_reconnect_request \/ ~app_running)

C35_OneGenerationPerTable ==
    \A i \in 1..Len(cbTasks) :
        cbTasks[i].kind = "alert" =>
            \A k, l \in 1..Len(cbTasks[i].table) :
                cbTasks[i].table[k].frequency = cbTasks[i].table[l].frequency

\* C36: every non-empty table passed to the alert callback, of declared
\* count N, holds exactly the rows of index 0..N-1, each once: its k-th row
\* has index k-1 and declares its length, so no row whose index is not below
\* its declared count is in it
C36_ExactIndices ==
    \A i \in 1..Len(cbTasks) :
        cbTasks[i].kind = "alert" =>
            \A k \in 1..Len(cbTasks[i].table) :
                /\ cbTasks[i].table[k].index = k - 1
                /\ cbTasks[i].table[k].count = Len(cbTasks[i].table)

\* C37: the frame _request_and_wait returns was received after the request
\* was written: a call that returns a response never returns a frame that
\* arrived before its request's frame was handed to the transport
C37_ResponseAfterWrite ==
    hist.ret = "response" => ~hist.stale

\* C38: delivering a frame to a pending single-response slot never fails:
\* when a frame with an awaited response id arrives, the handler completes
\* without raising, whether or not the slot's queue already holds a frame
C38_SlotDeliveryNeverFails ==
    hist.lastIn # << >> /\ hist.packet.packet_id \in DOMAIN pending_responses
        => hist.raised # "QueueFull"

\* C39: after a connect attempt has failed, at whichever step, no BLE link
\* to the detector is open when the engine is scanning again
C39_NoLinkAfterFailedConnect ==
    pc = "scan" /\ hist.attempt = "failed" => ~linkUp

====
